---- MODULE Spec2Model ----
(***************************************************************************)
(* Model of the incremental synchronisation core of biome:                *)
(*   internal/gitglob  - ParseLine, Match (ignore patterns)                *)
(*   cmd/biome/bundle.go - readStamp, stampMode, bundle, pushWorkDir       *)
(* Strings are sequences of one-character strings; a path is such a       *)
(* sequence with "/" between its segments.                                 *)
(***************************************************************************)
EXTENDS Integers, Sequences, FiniteSets, TLC

(***************************************************************************)
(* Strings and runes                                                       *)
(***************************************************************************)

\* A byte that is not valid UTF-8 (0x80 in the tests of ParseLine).
InvalidByte == "x80"

\* The runes of the model with their code points.
RuneTable ==
    { <<"\t", 9>>, <<" ", 32>>, <<"!", 33>>, <<"#", 35>>, <<"$", 36>>,
      <<"(", 40>>, <<")", 41>>, <<"*", 42>>, <<"+", 43>>, <<"-", 45>>,
      <<".", 46>>, <<"/", 47>>, <<"0", 48>>, <<"1", 49>>, <<"?", 63>>,
      <<"A", 65>>, <<"Z", 90>>, <<"[", 91>>, <<"\\", 92>>, <<"]", 93>>,
      <<"^", 94>>, <<"a", 97>>, <<"b", 98>>, <<"c", 99>>, <<"e", 101>>,
      <<"f", 102>>, <<"g", 103>>, <<"i", 105>>, <<"k", 107>>, <<"m", 109>>,
      <<"n", 110>>, <<"o", 111>>, <<"r", 114>>, <<"x", 120>>, <<"z", 122>>,
      <<"|", 124>> }

Runes == { p[1] : p \in RuneTable }

Ord(c) == (CHOOSE p \in RuneTable : p[1] = c)[2]

\* utf8.RuneError, used by convertCharacterClass for "no previous rune".
RuneError == 65533

IsSpace(c) == c \in {" ", "\t"}

IsAlnumCode(n) == (48 <= n /\ n <= 57) \/ (65 <= n /\ n <= 90) \/ (97 <= n /\ n <= 122)

\* Go's s[i:j] on a sequence (offsets from 0).
Slice(s, i, j) == SubSeq(s, i + 1, j)

HasPrefix(s, p) == Len(s) >= Len(p) /\ SubSeq(s, 1, Len(p)) = p

HasSuffix(s, p) == Len(s) >= Len(p) /\ SubSeq(s, Len(s) - Len(p) + 1, Len(s)) = p

Drop(s, n) == SubSeq(s, n + 1, Len(s))

Contains(s, c) == \E i \in 1..Len(s) : s[i] = c

ValidString(s) == \A i \in 1..Len(s) : s[i] # InvalidByte

(***************************************************************************)
(* internal/gitglob: the lexer                                             *)
(***************************************************************************)

literal == 0
star == 1
doubleStar == 2
questionMark == 3
characterClass == 4

token(typ, s) == [typ |-> typ, s |-> s]

appendLiteral(tokens, lit) ==
    IF lit # <<>> THEN Append(tokens, token(literal, lit)) ELSE tokens

\* The scan of a character class after "[" and an optional "!": the offset
\* after the closing "]", or -1 when the class is unterminated.
RECURSIVE lexClassEnd(_, _, _)
lexClassEnd(pat, pos, first) ==
    IF pos >= Len(pat) \/ pat[pos + 1] = "/" THEN -1
    ELSE IF ~first /\ pat[pos + 1] = "]" THEN pos + 1
    ELSE lexClassEnd(pat, pos + 1, FALSE)

\* atStart: the lexer is at the start of a path component.
RECURSIVE lexFrom(_, _, _, _, _)
lexFrom(pat, pos, literalStart, tokens, atStart) ==
    IF atStart /\ HasPrefix(Drop(pat, pos), <<"*", "*", "/">>)
    THEN lexFrom(pat, pos + 3, pos + 3,
                 Append(appendLiteral(tokens, Slice(pat, literalStart, pos)),
                        token(doubleStar, <<"*", "*", "/">>)),
                 TRUE)
    ELSE IF atStart /\ Drop(pat, pos) = <<"*", "*">>
    THEN Append(appendLiteral(tokens, Slice(pat, literalStart, pos)),
                token(doubleStar, <<"*", "*">>))
    ELSE IF pos >= Len(pat)
    THEN appendLiteral(tokens, Slice(pat, literalStart, Len(pat)))
    ELSE LET c == pat[pos + 1]
             flushed == appendLiteral(tokens, Slice(pat, literalStart, pos))
         IN CASE c = "/" -> lexFrom(pat, pos + 1, literalStart, tokens, TRUE)
              [] c = "*" -> lexFrom(pat, pos + 1, pos + 1,
                                    Append(flushed, token(star, <<"*">>)), FALSE)
              [] c = "?" -> lexFrom(pat, pos + 1, pos + 1,
                                    Append(flushed, token(questionMark, <<"?">>)), FALSE)
              [] c = "[" ->
                    LET afterBang == IF pos + 1 < Len(pat) /\ pat[pos + 2] = "!"
                                     THEN pos + 2 ELSE pos + 1
                        end == lexClassEnd(pat, afterBang, TRUE)
                    IN IF end < 0 THEN <<>>
                       ELSE lexFrom(pat, end, end,
                                    Append(flushed,
                                           token(characterClass, Slice(pat, pos, end))),
                                    FALSE)
              [] c = "\\" ->
                    IF pos + 1 >= Len(pat)
                    THEN Append(flushed, token(literal, <<"\\">>))
                    ELSE lexFrom(pat, pos + 2, pos + 1, flushed, pat[pos + 2] = "/")
              [] OTHER -> lexFrom(pat, pos + 1, literalStart, tokens, FALSE)

lexPattern(pat) == lexFrom(pat, 0, 0, <<>>, TRUE)

RECURSIVE trimRightFrom(_, _, _)
trimRightFrom(s, end, prevEnd) ==
    IF end <= 0 THEN <<>>
    ELSE IF s[end] = "\\" THEN Slice(s, 0, prevEnd)
    ELSE IF ~IsSpace(s[end]) THEN Slice(s, 0, end)
    ELSE trimRightFrom(s, end - 1, end)

trimRight(s) == trimRightFrom(s, Len(s), Len(s))

(***************************************************************************)
(* internal/gitglob: translation of a character class to RE2 text          *)
(***************************************************************************)

HasRune(n) == \E p \in RuneTable : p[2] = n

CodeRune(n) == (CHOOSE p \in RuneTable : p[2] = n)[1]

\* The expansion "for c := prev + 1; c <= end; c++" of a range that spans
\* the slash; code points outside the runes of the model are left out.
RECURSIVE expandRange(_, _, _)
expandRange(out, c, end) ==
    IF c > end THEN out
    ELSE IF ~HasRune(c) \/ CodeRune(c) = "/" THEN expandRange(out, c + 1, end)
    ELSE IF CodeRune(c) \in {"\\", "]", "-"}
         THEN expandRange(out \o <<"\\", CodeRune(c)>>, c + 1, end)
    ELSE expandRange(Append(out, CodeRune(c)), c + 1, end)

\* The main loop of convertCharacterClass over the inside s of the class.
RECURSIVE convertLoop(_, _, _, _, _)
convertLoop(s, pos, prev, negated, out) ==
    IF pos >= Len(s) THEN [ok |-> TRUE, out |-> out]
    ELSE LET c == s[pos + 1] IN
         IF c \in {"\\", "]"}
         THEN convertLoop(s, pos + 1, Ord(c), negated, out \o <<"\\", c>>)
         ELSE IF c = "-"
         THEN IF pos + 1 >= Len(s)
              THEN [ok |-> TRUE, out |-> out \o <<"\\", "-">>]
              ELSE LET end == Ord(s[pos + 2]) IN
                   IF prev = RuneError \/ end = RuneError \/ prev > end
                   THEN [ok |-> FALSE, out |-> out]
                   ELSE IF ~negated /\ prev <= Ord("/") /\ Ord("/") <= end
                   THEN convertLoop(s, pos + 2, prev, negated,
                                    expandRange(out, prev + 1, end))
                   ELSE convertLoop(s, pos + 2, prev, negated,
                                    out \o <<"-", s[pos + 2]>>)
         ELSE convertLoop(s, pos + 1, Ord(c), negated, Append(out, c))

\* [ok, out]: out is the RE2 class text appended to the expression.
convertCharacterClass(cc) ==
    LET closed(negated, r) ==
            IF ~r.ok THEN r
            ELSE [ok |-> TRUE,
                  out |-> r.out \o (IF negated THEN <<"/">> ELSE <<>>) \o <<"]">>]
        first(inner, negated, p0, open, c) ==
            closed(negated,
                   IF c \in {"^", "["}
                   THEN convertLoop(inner, p0 + 1, Ord(c), negated, open \o <<"\\", c>>)
                   ELSE IF c = "-"
                   THEN convertLoop(inner, p0 + 1, Ord(c), negated, Append(open, "-"))
                   ELSE convertLoop(inner, p0, RuneError, negated, open))
        start(inner, negated) ==
            first(inner, negated, IF negated THEN 1 ELSE 0,
                  IF negated THEN <<"[", "^">> ELSE <<"[">>,
                  IF (IF negated THEN 1 ELSE 0) < Len(inner)
                  THEN inner[(IF negated THEN 1 ELSE 0) + 1] ELSE "")
        inside(inner) == start(inner, inner # <<>> /\ inner[1] = "!")
    IN inside(Slice(cc, 1, Len(cc) - 1))

(***************************************************************************)
(* regexp (Go standard library, Perl syntax): the part of the syntax that  *)
(* ParseLine can produce.  Character classes are parsed from the           *)
(* expression text as regexp/syntax does, so a class that ParseLine left   *)
(* open swallows the text that follows it.                                 *)
(***************************************************************************)

reFail == [ok |-> FALSE, r |-> 0, rest |-> <<>>]

IsOctal(c) == c \in {"0", "1"}

unhex(c) ==
    CASE c = "0" -> 0 [] c = "1" -> 1
      [] c \in {"a", "A"} -> 10 [] c = "b" -> 11 [] c = "c" -> 12
      [] c = "e" -> 14 [] c = "f" -> 15
      [] OTHER -> -1

\* Up to two more octal digits after the first one.
RECURSIVE octalMore(_, _, _)
octalMore(r, t, i) ==
    IF i >= 3 \/ t = <<>> \/ ~IsOctal(t[1]) THEN [ok |-> TRUE, r |-> r, rest |-> t]
    ELSE octalMore(r * 8 + (Ord(t[1]) - 48), Tail(t), i + 1)

\* parseEscape of regexp/syntax on t = "\" ...
parseEscape(t) ==
    LET t1 == Tail(t) IN
    IF t1 = <<>> THEN reFail
    ELSE LET c == t1[1]
             t2 == Tail(t1)
         IN CASE c = "1" -> IF t2 = <<>> \/ ~IsOctal(t2[1]) THEN reFail
                            ELSE octalMore(1, t2, 1)
              [] c = "0" -> octalMore(0, t2, 1)
              [] c = "x" -> IF Len(t2) < 2 \/ unhex(t2[1]) < 0 \/ unhex(t2[2]) < 0
                            THEN reFail
                            ELSE [ok |-> TRUE, r |-> unhex(t2[1]) * 16 + unhex(t2[2]),
                                  rest |-> Drop(t2, 2)]
              [] c = "a" -> [ok |-> TRUE, r |-> 7, rest |-> t2]
              [] c = "f" -> [ok |-> TRUE, r |-> 12, rest |-> t2]
              [] c = "n" -> [ok |-> TRUE, r |-> 10, rest |-> t2]
              [] c = "r" -> [ok |-> TRUE, r |-> 13, rest |-> t2]
              [] OTHER -> IF Ord(c) < 128 /\ ~IsAlnumCode(Ord(c))
                          THEN [ok |-> TRUE, r |-> Ord(c), rest |-> t2]
                          ELSE reFail

parseClassChar(t) ==
    IF t = <<>> THEN reFail
    ELSE IF t[1] = "\\" THEN parseEscape(t)
    ELSE [ok |-> TRUE, r |-> Ord(t[1]), rest |-> Tail(t)]

classFail == [ok |-> FALSE, ranges |-> {}, rest |-> <<>>]

RECURSIVE classLoop(_, _, _)
classLoop(t, first, ranges) ==
    LET upTo(lo, hi) ==
            IF ~hi.ok \/ hi.r < lo.r THEN classFail
            ELSE classLoop(hi.rest, FALSE, ranges \cup {<<lo.r, hi.r>>})
        from(lo) ==
            IF ~lo.ok THEN classFail
            ELSE IF Len(lo.rest) >= 2 /\ lo.rest[1] = "-" /\ lo.rest[2] # "]"
            THEN upTo(lo, parseClassChar(Tail(lo.rest)))
            ELSE classLoop(lo.rest, FALSE, ranges \cup {<<lo.r, lo.r>>})
    IN IF t # <<>> /\ t[1] = "]" /\ ~first
       THEN [ok |-> TRUE, ranges |-> ranges, rest |-> Tail(t)]
       ELSE from(parseClassChar(t))

\* parseClass of regexp/syntax on t = "[" ...: [ok, neg, ranges, rest].
parseClass(t) ==
    LET parsed(neg, r) == [ok |-> r.ok, neg |-> neg, ranges |-> r.ranges, rest |-> r.rest]
        class(neg) == parsed(neg, classLoop(Drop(t, IF neg THEN 2 ELSE 1), TRUE, {}))
    IN class(Len(t) >= 2 /\ t[2] = "^")

AnyDirText == <<"(", "^", "|", ".", "*", "/", ")">>
DoubleStarText == <<"(", "|", ".", "+", "/", ")">>

reNode(op, c, neg, ranges, rep) ==
    [op |-> op, c |-> c, neg |-> neg, ranges |-> ranges, rep |-> rep]

\* The program of an expression: the sequence of its nodes, or a failure
\* (regexp.MustCompile panics).
RECURSIVE compileFrom(_, _)
compileFrom(t, prog) ==
    LET escaped(e) ==
            IF ~e.ok THEN [ok |-> FALSE, prog |-> <<>>]
            ELSE compileFrom(e.rest,
                             Append(prog, reNode("class", "", FALSE, {<<e.r, e.r>>}, FALSE)))
        repeated(cl, rep) ==
            compileFrom(IF rep THEN Tail(cl.rest) ELSE cl.rest,
                        Append(prog, reNode("class", "", cl.neg, cl.ranges, rep)))
        class(cl) ==
            IF ~cl.ok THEN [ok |-> FALSE, prog |-> <<>>]
            ELSE repeated(cl, cl.rest # <<>> /\ cl.rest[1] = "*")
    IN IF t = <<>> THEN [ok |-> TRUE, prog |-> prog]
       ELSE IF HasPrefix(t, AnyDirText)
       THEN compileFrom(Drop(t, Len(AnyDirText)),
                        Append(prog, reNode("anydir", "", FALSE, {}, FALSE)))
       ELSE IF HasPrefix(t, DoubleStarText)
       THEN compileFrom(Drop(t, Len(DoubleStarText)),
                        Append(prog, reNode("dstar", "", FALSE, {}, FALSE)))
       ELSE IF t[1] = "^"
       THEN compileFrom(Tail(t), Append(prog, reNode("bol", "", FALSE, {}, FALSE)))
       ELSE IF t[1] = "$"
       THEN compileFrom(Tail(t), Append(prog, reNode("eol", "", FALSE, {}, FALSE)))
       ELSE IF t[1] = "\\" THEN escaped(parseEscape(t))
       ELSE IF t[1] = "[" THEN class(parseClass(t))
       ELSE compileFrom(Tail(t), Append(prog, reNode("lit", t[1], FALSE, {}, FALSE)))

InClass(n, c) == n.neg # (\E r \in n.ranges : r[1] <= Ord(c) /\ Ord(c) <= r[2])

\* Whether the nodes k.. of prog match s from offset i on (the end of the
\* match is free unless a node anchors it).
RECURSIVE matchFrom(_, _, _, _)
matchFrom(prog, k, s, i) ==
    IF k > Len(prog) THEN TRUE
    ELSE LET n == prog[k] IN
         CASE n.op = "bol" -> i = 0 /\ matchFrom(prog, k + 1, s, i)
           [] n.op = "eol" -> i = Len(s) /\ matchFrom(prog, k + 1, s, i)
           [] n.op = "anydir" ->
                \/ i = 0 /\ matchFrom(prog, k + 1, s, i)
                \/ \E j \in (i + 1)..Len(s) : s[j] = "/" /\ matchFrom(prog, k + 1, s, j)
           [] n.op = "dstar" ->
                \/ matchFrom(prog, k + 1, s, i)
                \/ \E j \in (i + 2)..Len(s) : s[j] = "/" /\ matchFrom(prog, k + 1, s, j)
           [] n.op = "lit" ->
                i < Len(s) /\ s[i + 1] = n.c /\ matchFrom(prog, k + 1, s, i + 1)
           [] n.op = "class" ->
                \/ n.rep /\ matchFrom(prog, k + 1, s, i)
                \/ i < Len(s) /\ InClass(n, s[i + 1])
                   /\ matchFrom(prog, IF n.rep THEN k ELSE k + 1, s, i + 1)

\* (*Regexp).MatchString: some substring of s matches.
MatchString(re, s) == \E i \in 0..Len(s) : matchFrom(re.prog, 1, s, i)

(***************************************************************************)
(* internal/gitglob: ParseLine and Match                                   *)
(***************************************************************************)

\* The compiled expression of a Pattern: kind "nil" is the nil *Regexp of
\* the zero Pattern, kind "panic" stands for regexp.MustCompile panicking.
NilRegexp == [kind |-> "nil", src |-> <<>>, prog |-> <<>>]

Pattern(re, line, negate, directoryOnly) ==
    [re |-> re, line |-> line, negate |-> negate, directoryOnly |-> directoryOnly]

ZeroPattern == Pattern(NilRegexp, <<>>, FALSE, FALSE)

MustCompile(text) ==
    LET compiled(c) ==
            IF c.ok THEN [kind |-> "re", src |-> text, prog |-> c.prog]
            ELSE [kind |-> "panic", src |-> text, prog |-> <<>>]
    IN compiled(compileFrom(text, <<>>))

\* regexp.QuoteMeta
RECURSIVE QuoteMeta(_)
QuoteMeta(s) ==
    IF s = <<>> THEN <<>>
    ELSE IF s[1] \in {"\\", ".", "+", "*", "?", "(", ")", "|", "[", "]", "^", "$"}
    THEN <<"\\", s[1]>> \o QuoteMeta(Tail(s))
    ELSE <<s[1]>> \o QuoteMeta(Tail(s))

\* The loop of ParseLine over the tokens: [ok, out].
RECURSIVE translateTokens(_, _, _)
translateTokens(tokens, i, out) ==
    LET class(cc) ==
            IF ~cc.ok THEN [ok |-> FALSE, out |-> out]
            ELSE translateTokens(tokens, i + 1, out \o cc.out)
        one(tok) ==
            CASE tok.typ = literal -> translateTokens(tokens, i + 1, out \o QuoteMeta(tok.s))
              [] tok.typ = star ->
                   translateTokens(tokens, i + 1, out \o <<"[", "^", "/", "]", "*">>)
              [] tok.typ = questionMark ->
                   translateTokens(tokens, i + 1, out \o <<"[", "^", "/", "]">>)
              [] tok.typ = characterClass -> class(convertCharacterClass(tok.s))
              [] tok.typ = doubleStar -> translateTokens(tokens, i + 1, out \o DoubleStarText)
    IN IF i > Len(tokens) THEN [ok |-> TRUE, out |-> out]
       ELSE one(tokens[i])

\* A ParseLine that never anchors a pattern at the start of the path.
AnchorTextAnywhere(rooted) == AnyDirText

\* A ParseLine that anchors every pattern at the start of the path.
AnchorTextStart(rooted) == <<"^">>

\* The start of the expression: "^" for a rooted pattern.
AnchorText(rooted) == IF rooted THEN <<"^">> ELSE AnyDirText

\* The first token is a doubleStar token.
leadsDeep(tokens) == tokens[1].typ = doubleStar

\* The end of the expression: "$" unless the pattern is a prefix.
endAnchored(isPrefix, out) == IF isPrefix THEN out ELSE Append(out, "$")

\* ParseLine, step by step: each step names what the code has computed so far.
ParseLine(line0) ==
    LET compiled(orig, negate, directoryOnly, isPrefix, body) ==
            IF ~body.ok THEN ZeroPattern
            ELSE Pattern(MustCompile(endAnchored(isPrefix, body.out)),
                         orig, negate, directoryOnly)
        translated(orig, negate, directoryOnly, rooted, isPrefix, tokens) ==
            compiled(orig, negate, directoryOnly, isPrefix,
                     translateTokens(IF isPrefix THEN Slice(tokens, 0, Len(tokens) - 1)
                                     ELSE tokens,
                                     1, AnchorText(rooted)))
        stripped(orig, negate, directoryOnly, rooted, tokens) ==
            translated(orig, negate, directoryOnly, rooted,
                       Len(tokens) > 0 /\ tokens[Len(tokens)].typ = doubleStar, tokens)
        lexed(orig, negate, directoryOnly, rooted0, tokens) ==
            IF Len(tokens) = 0 THEN ZeroPattern
            ELSE IF leadsDeep(tokens)
            THEN stripped(orig, negate, directoryOnly, FALSE, Tail(tokens))
            ELSE stripped(orig, negate, directoryOnly,
                          rooted0 \/ \E i \in 1..Len(tokens) :
                                        /\ tokens[i].typ = literal
                                        /\ Contains(tokens[i].s, "/"),
                          tokens)
        unslashed(orig, negate, rooted0, directoryOnly, line) ==
            lexed(orig, negate, directoryOnly, rooted0,
                  lexPattern(IF directoryOnly THEN Slice(line, 0, Len(line) - 1) ELSE line))
        unrooted(orig, negate, rooted0, line) ==
            unslashed(orig, negate, rooted0, HasSuffix(line, <<"/">>), line)
        unnegated(orig, negate, line) ==
            unrooted(orig, negate, HasPrefix(line, <<"/">>),
                     IF HasPrefix(line, <<"/">>) THEN Tail(line) ELSE line)
        uncommented(orig, line) ==
            unnegated(orig, HasPrefix(line, <<"!">>),
                      IF HasPrefix(line, <<"!">>) \/ HasPrefix(line, <<"\\", "!">>)
                      THEN Tail(line) ELSE line)
        trimmed(orig) ==
            IF orig = <<>> THEN ZeroPattern
            ELSE uncommented(orig, IF HasPrefix(orig, <<"\\", "#">>) THEN Tail(orig) ELSE orig)
    IN IF ~ValidString(line0) THEN ZeroPattern
       ELSE IF HasPrefix(line0, <<"#">>) THEN ZeroPattern
       ELSE trimmed(trimRight(line0))

\* Split s at every "/" (strings.Split).
RECURSIVE SplitSlash(_)
SplitSlash(s) ==
    IF ~Contains(s, "/") THEN <<s>>
    ELSE LET i == CHOOSE k \in 1..Len(s) : s[k] = "/" /\ \A j \in 1..(k - 1) : s[j] # "/"
         IN <<SubSeq(s, 1, i - 1)>> \o SplitSlash(Drop(s, i))

\* io/fs.ValidPath
ValidPath(name) ==
    LET elements(elems) ==
            \A i \in 1..Len(elems) : elems[i] \notin {<<>>, <<".">>, <<".", ".">>}
    IN /\ ValidString(name)
       /\ \/ name = <<".">>
          \/ elements(SplitSlash(name))

\* A Match that runs the expression on any path.
MatchAnyPath(pat, path, isDir) ==
    /\ pat.re.kind # "nil"
    /\ (isDir \/ ~pat.directoryOnly)
    /\ MatchString(pat.re, path)

\* Pattern.Match; isDir stands for mode.IsDir().
Match(pat, path, isDir) ==
    /\ pat.re.kind # "nil"
    /\ (isDir \/ ~pat.directoryOnly)
    /\ ValidPath(path)
    /\ MatchString(pat.re, path)

IsNegated(pat) == pat.negate

IsValid(pat) == pat.re.kind # "nil"

(***************************************************************************)
(* path/filepath (Go standard library, Unix build): the functions that     *)
(* bundle applies to symbolic links                                        *)
(***************************************************************************)

RECURSIVE JoinSlash(_)
JoinSlash(segs) ==
    IF segs = <<>> THEN <<>>
    ELSE IF Len(segs) = 1 THEN segs[1]
    ELSE segs[1] \o <<"/">> \o JoinSlash(Tail(segs))

IsAbs(path) == HasPrefix(path, <<"/">>)

DotDot == <<".", ".">>

\* The elements that Clean keeps, from the elements segs of the path.
RECURSIVE cleanSegs(_, _, _)
cleanSegs(segs, rooted, kept) ==
    IF segs = <<>> THEN kept
    ELSE LET seg == Head(segs) IN
         IF seg \in {<<>>, <<".">>} THEN cleanSegs(Tail(segs), rooted, kept)
         ELSE IF seg # DotDot THEN cleanSegs(Tail(segs), rooted, Append(kept, seg))
         ELSE IF kept # <<>> /\ kept[Len(kept)] # DotDot
              THEN cleanSegs(Tail(segs), rooted, SubSeq(kept, 1, Len(kept) - 1))
         ELSE IF rooted THEN cleanSegs(Tail(segs), rooted, kept)
         ELSE cleanSegs(Tail(segs), rooted, Append(kept, seg))

Clean(path) ==
    LET joined(kept) ==
            IF IsAbs(path) THEN <<"/">> \o JoinSlash(kept)
            ELSE IF kept = <<>> THEN <<".">>
            ELSE JoinSlash(kept)
    IN IF path = <<>> THEN <<".">>
       ELSE joined(cleanSegs(SplitSlash(path), IsAbs(path), <<>>))

\* filepath.Join of two elements.
Join(a, b) ==
    IF a = <<>> /\ b = <<>> THEN <<>>
    ELSE IF a = <<>> THEN Clean(b)
    ELSE IF b = <<>> THEN Clean(a)
    ELSE Clean(a \o <<"/">> \o b)

\* The offset after the last "/" of path (0 when there is none).
LastSlash(path) ==
    IF ~Contains(path, "/") THEN 0
    ELSE CHOOSE k \in 1..Len(path) : path[k] = "/" /\ \A j \in (k + 1)..Len(path) : path[j] # "/"

Dir(path) == Clean(Slice(path, 0, LastSlash(path)))

\* The elements of a cleaned path.
Elements(cleaned) ==
    IF cleaned \in {<<".">>, <<"/">>} THEN <<>>
    ELSE SplitSlash(IF IsAbs(cleaned) THEN Tail(cleaned) ELSE cleaned)

\* The number of leading elements that base and targ share.
RECURSIVE commonLen(_, _)
commonLen(b, t) ==
    IF b = <<>> \/ t = <<>> \/ Head(b) # Head(t) THEN 0
    ELSE 1 + commonLen(Tail(b), Tail(t))

\* filepath.Rel: [err, path].
Rel(basepath, targpath) ==
    LET shared(b, t, n) ==
            IF n < Len(b) /\ b[n + 1] = DotDot THEN [err |-> TRUE, path |-> <<>>]
            ELSE [err |-> FALSE,
                  path |-> JoinSlash([i \in 1..(Len(b) - n) |-> DotDot] \o Drop(t, n))]
        split(b, t) == shared(b, t, commonLen(b, t))
        cleaned(base, targ) ==
            IF targ = base THEN [err |-> FALSE, path |-> <<".">>]
            ELSE IF IsAbs(base) # IsAbs(targ) THEN [err |-> TRUE, path |-> <<>>]
            ELSE split(Elements(base), Elements(targ))
    IN cleaned(Clean(basepath), Clean(targpath))

\* os.IsPathSeparator
IsPathSeparator(c) == c = "/"

isSubFilepath(path0) ==
    LET strict(path) ==
            ~(Len(path) >= 3 /\ Slice(path, 0, 2) = DotDot /\ IsPathSeparator(path[3]))
    IN strict(Clean(path0))

(***************************************************************************)
(* cmd/biome/bundle.go: stamps                                             *)
(***************************************************************************)

\* io/fs.FileMode is a uint32.  Bit 31 (fs.ModeDir) does not fit the integers
\* of the checker, so a mode is the pair of that bit and the 31 bits below it.
FileMode(dir, low) == [dir |-> dir, low |-> low]

SymlinkBit == 134217728
DeviceBit == 67108864
NamedPipeBit == 33554432
SocketBit == 16777216
CharDeviceBit == 2097152
IrregularBit == 524288

ModeDir == FileMode(TRUE, 0)
ModeSymlink == FileMode(FALSE, SymlinkBit)
ModeDevice == FileMode(FALSE, DeviceBit)
ModeRegular == FileMode(FALSE, 0)

LowTypeBits == {SymlinkBit, DeviceBit, NamedPipeBit, SocketBit, CharDeviceBit, IrregularBit}

HasBit(n, bit) == (n \div bit) % 2 = 1

RECURSIVE SumOf(_)
SumOf(S) == IF S = {} THEN 0 ELSE LET x == CHOOSE y \in S : TRUE IN x + SumOf(S \ {x})

\* FileMode.Type(): the type bits of mode.
Type(mode) == FileMode(mode.dir, SumOf({b \in LowTypeBits : HasBit(mode.low, b)}))

ModeIsDir(mode) == mode.dir

\* mode | perm, for permission bits perm that mode does not have.
WithPerm(mode, perm) == FileMode(mode.dir, mode.low + perm)

Digits == <<"0", "1", "2", "3", "4", "5", "6", "7", "8", "9">>

RECURSIVE FormatNat(_)
FormatNat(n) == IF n < 10 THEN <<Digits[n + 1]>> ELSE Append(FormatNat(n \div 10), Digits[(n % 10) + 1])

\* fmt's %d
FormatInt(n) == IF n < 0 THEN <<"-">> \o FormatNat(-n) ELSE FormatNat(n)

RECURSIVE ZeroPad(_, _)
ZeroPad(d, width) == IF Len(d) >= width THEN d ELSE ZeroPad(<<"0">> \o d, width)

\* fmt's %06d: the sign counts in the width.
FormatInt06(n) ==
    IF n < 0 THEN <<"-">> \o ZeroPad(FormatNat(-n), 5) ELSE ZeroPad(FormatNat(n), 6)

\* Go's integer division and remainder truncate toward zero.
GoDiv(a, b) == IF a >= 0 THEN a \div b ELSE -((-a) \div b)
GoMod(a, b) == a - b * GoDiv(a, b)

MicrosPerSecond == 1000000

\* dirStamp is the fake checksum value of a directory.
dirStamp == <<"d", "i", "r">>

\* info.Sys(): a *syscall.Stat_t where the platform has one, else nil.
Stat_t(Ino, Uid, Gid) == [ok |-> TRUE, Ino |-> Ino, Uid |-> Uid, Gid |-> Gid]

NoSys == [ok |-> FALSE, Ino |-> 0, Uid |-> 0, Gid |-> 0]

FileInfo(mode, modTime, size, sys) ==
    [mode |-> mode, modTime |-> modTime, size |-> size, sys |-> sys]

\* var ino, uid, gid uint64; if st, ok := info.Sys().(*syscall.Stat_t); ok {...}
sysFields(sys) ==
    IF sys.ok THEN [ino |-> sys.Ino, uid |-> sys.Uid, gid |-> sys.Gid]
    ELSE [ino |-> 0, uid |-> 0, gid |-> 0]

marshalStamp(info) ==
    LET formatted(st) ==
            FormatInt(GoDiv(info.modTime, MicrosPerSecond)) \o <<".">>
            \o FormatInt06(GoMod(info.modTime, MicrosPerSecond))
            \o <<"-">> \o FormatInt(info.size)
            \o <<"-">> \o FormatInt(st.ino)
            \o <<"-">> \o FormatInt(info.mode.low)
            \o <<"-">> \o FormatInt(st.uid)
            \o <<"-">> \o FormatInt(st.gid)
    IN IF ModeIsDir(info.mode) THEN dirStamp
       ELSE formatted(sysFields(info.sys))

\* strings.Split(s, "-")
RECURSIVE SplitDash(_)
SplitDash(s) ==
    IF ~Contains(s, "-") THEN <<s>>
    ELSE LET i == CHOOSE k \in 1..Len(s) : s[k] = "-" /\ \A j \in 1..(k - 1) : s[j] # "-"
         IN <<SubSeq(s, 1, i - 1)>> \o SplitDash(Drop(s, i))

DigitValue(c) == (CHOOSE i \in 1..10 : Digits[i] = c) - 1

IsDigit(c) == \E i \in 1..10 : Digits[i] = c

RECURSIVE NatOf(_, _)
NatOf(s, acc) == IF s = <<>> THEN acc ELSE NatOf(Tail(s), acc * 10 + DigitValue(s[1]))

RECURSIVE StripZeros(_)
StripZeros(s) == IF Len(s) > 1 /\ s[1] = "0" THEN StripZeros(Tail(s)) ELSE s

\* Whether the digit strings a and b of the same length satisfy a <= b.
RECURSIVE DigitsLeq(_, _)
DigitsLeq(a, b) ==
    IF a = <<>> THEN TRUE
    ELSE IF DigitValue(a[1]) # DigitValue(b[1]) THEN DigitValue(a[1]) < DigitValue(b[1])
    ELSE DigitsLeq(Tail(a), Tail(b))

MaxUint32Digits == <<"4", "2", "9", "4", "9", "6", "7", "2", "9", "5">>
Bit31Digits == <<"2", "1", "4", "7", "4", "8", "3", "6", "4", "8">>

\* strconv.ParseUint(s, 10, 32) converted to a FileMode: [err, mode].
ParseUint(s) ==
    LET halves(d, hi, lo) ==
            IF DigitsLeq(Bit31Digits, d)
            THEN [err |-> FALSE,
                  mode |-> FileMode(TRUE, (hi - 21475) * 100000 + (lo + 16352))]
            ELSE [err |-> FALSE, mode |-> FileMode(FALSE, hi * 100000 + lo)]
        digits(d) ==
            IF Len(d) < 10 THEN [err |-> FALSE, mode |-> FileMode(FALSE, NatOf(d, 0))]
            ELSE IF Len(d) > 10 \/ ~DigitsLeq(d, MaxUint32Digits)
            THEN [err |-> TRUE, mode |-> FileMode(FALSE, 0)]
            ELSE halves(d, NatOf(SubSeq(d, 1, 5), 0), NatOf(SubSeq(d, 6, 10), 0))
    IN IF s = <<>> \/ \E i \in 1..Len(s) : ~IsDigit(s[i])
       THEN [err |-> TRUE, mode |-> FileMode(FALSE, 0)]
       ELSE digits(StripZeros(s))

PermAll == 511

\* A stampMode that does not know the stamp of a directory.
stampModeParsed(stamp) ==
    LET parsed(mode) == IF mode.err THEN FileMode(FALSE, 0) ELSE mode.mode
        split(parts) == IF Len(parts) < 4 THEN FileMode(FALSE, 0) ELSE parsed(ParseUint(parts[4]))
    IN split(SplitDash(stamp))

stampMode(stamp) ==
    LET parsed(mode) == IF mode.err THEN FileMode(FALSE, 0) ELSE mode.mode
        split(parts) == IF Len(parts) < 4 THEN FileMode(FALSE, 0) ELSE parsed(ParseUint(parts[4]))
    IN IF stamp = dirStamp THEN WithPerm(ModeDir, PermAll)
       ELSE split(SplitDash(stamp))

(***************************************************************************)
(* The host directory: the tree that bundle walks (os.DirFS(rootHostDir))  *)
(***************************************************************************)

ignoreFileName == <<".", "b", "i", "o", "m", "e", "i", "g", "n", "o", "r", "e">>

\* rec.rootHostDir
HostRoot == <<"/", "r">>

Root == <<".">>

PathA == <<"a">>
PathAB == <<"a", "/", "b">>

\* The paths an entry of the tree can have.
Paths == {PathA, PathAB}

\* The raw targets a symbolic link can have: a relative one, an absolute one
\* inside the root, one that leaves the root, and the parent of the root.
Targets == { <<"k">>, <<"/", "r", "/", "k">>, <<".", ".", "/", ".", ".", "/", "x">>,
             <<".", ".", "/", ".", ".">> }

Node(kind, modTime, target) == [kind |-> kind, modTime |-> modTime, target |-> target]

NoNode == Node("none", 0, <<>>)

Exists(n) == n.kind # "none"

\* path.Dir and path.Base of a path of the tree.
Parent(path) == IF Contains(path, "/") THEN Slice(path, 0, LastSlash(path) - 1) ELSE Root

BaseName(path) == Drop(path, LastSlash(path))

\* The entries of the tree form a hierarchy: what has children is a directory.
WellFormed(tree) ==
    \A p \in Paths : Exists(tree[p]) /\ Parent(p) # Root => tree[Parent(p)].kind = "dir"

PermDir == 493
PermFile == 420

ModeOf(kind) ==
    CASE kind = "dir" -> WithPerm(ModeDir, PermDir)
      [] kind = "symlink" -> WithPerm(ModeSymlink, PermAll)
      [] kind = "device" -> WithPerm(ModeDevice, PermFile)
      [] OTHER -> WithPerm(ModeRegular, PermFile)

\* The fs.FileInfo of an entry (Lstat).  The size of a link is the length of
\* its target; inode and owner are not told apart in this model.
InfoOf(n) ==
    FileInfo(ModeOf(n.kind), n.modTime, IF n.kind = "symlink" THEN Len(n.target) ELSE 0,
             Stat_t(0, 0, 0))

RootNode == Node("dir", 0, <<>>)

\* A source tree: its entries and the lines of its ignore file.
SourceFile(lines) == [exists |-> TRUE, lines |-> lines]

NoFile == [exists |-> FALSE, lines |-> <<>>]

NodeAt(src, path) ==
    IF path = Root THEN RootNode
    ELSE IF path = ignoreFileName
    THEN (IF src.ignoreFile.exists THEN Node("file", 0, <<>>) ELSE NoNode)
    ELSE IF path \in Paths THEN src.tree[path]
    ELSE NoNode

RECURSIVE StrLess(_, _)
StrLess(x, y) ==
    IF y = <<>> THEN FALSE
    ELSE IF x = <<>> THEN TRUE
    ELSE IF x[1] = y[1] THEN StrLess(Tail(x), Tail(y))
    ELSE Ord(x[1]) < Ord(y[1])

RECURSIVE SortStrings(_)
SortStrings(S) ==
    IF S = {} THEN <<>>
    ELSE LET m == CHOOSE x \in S : \A y \in S \ {x} : StrLess(x, y)
         IN <<m>> \o SortStrings(S \ {m})

\* fs.ReadDir: the names of the entries of a directory, sorted.
ReadDir(src, dir) ==
    SortStrings({BaseName(p) : p \in {q \in Paths \cup {ignoreFileName} :
                                          Parent(q) = dir /\ Exists(NodeAt(src, q))}})

\* What os.Stat finds at an absolute path, following links.  Outside the
\* root only "/" exists.
RECURSIVE StatAbs(_, _, _)
StatAbs(src, abs, depth) ==
    LET found(rel, n) ==
            IF abs = <<"/">> THEN [err |-> FALSE, info |-> InfoOf(RootNode)]
            ELSE IF ~HasPrefix(abs, HostRoot) \/ ~Exists(n) \/ depth = 0
            THEN [err |-> TRUE, info |-> InfoOf(NoNode)]
            ELSE IF n.kind = "symlink"
            THEN StatAbs(src,
                         IF IsAbs(n.target) THEN Clean(n.target)
                         ELSE Join(Dir(Join(HostRoot, rel)), n.target),
                         depth - 1)
            ELSE [err |-> FALSE, info |-> InfoOf(n)]
        at(rel) == found(rel, NodeAt(src, rel))
    IN at(Rel(HostRoot, abs).path)

MaxLinkDepth == 2

\* fs.Stat(fsys, path)
Stat(src, path) == StatAbs(src, Join(HostRoot, path), MaxLinkDepth)

\* readStamp computes a checksum of a file based on its metadata.
readStamp(src, path, info) ==
    LET linked(pre, targetInfo) ==
            IF targetInfo.err THEN pre \o <<"+", "0">>
            ELSE pre \o <<"+">> \o marshalStamp(targetInfo.info)
    IN IF Type(info.mode) # ModeSymlink THEN marshalStamp(info)
       ELSE linked(marshalStamp(info), Stat(src, path))

(***************************************************************************)
(* cmd/biome/bundle.go: bundle                                             *)
(***************************************************************************)

\* gitglob.LastMatch: the last pattern of the list that matches, if any.
LastMatch(patterns, path, isDir) ==
    LET among(hits) ==
            IF hits = {} THEN [found |-> FALSE, pat |-> ZeroPattern]
            ELSE [found |-> TRUE,
                  pat |-> patterns[CHOOSE i \in hits : \A j \in hits : j <= i]]
    IN among({i \in 1..Len(patterns) : Match(patterns[i], path, isDir)})

\* The valid patterns of a list of lines, appended to dst.
RECURSIVE appendPatterns(_, _)
appendPatterns(dst, lines) ==
    LET parsed(pat) ==
            appendPatterns(IF IsValid(pat) THEN Append(dst, pat) ELSE dst, Tail(lines))
    IN IF lines = <<>> THEN dst
       ELSE parsed(ParseLine(Head(lines)))

NoFault == [what |-> "none", at |-> <<>>]

Fault(what, at) == [what |-> what, at |-> at]

\* A readLocalIgnore that puts the patterns of the file before those of dst.
readLocalIgnoreFirst(dst, src, fault) ==
    IF ~src.ignoreFile.exists THEN [err |-> "", patterns |-> dst]
    ELSE IF fault = Fault("read", ignoreFileName)
    THEN [err |-> "read .biomeignore", patterns |-> dst]
    ELSE [err |-> "", patterns |-> appendPatterns(<<>>, src.ignoreFile.lines) \o dst]

\* readLocalIgnore: [err, patterns].  The content of the file is kept as the
\* list of its lines.
readLocalIgnore(dst, src, fault) ==
    IF ~src.ignoreFile.exists THEN [err |-> "", patterns |-> dst]
    ELSE IF fault = Fault("read", ignoreFileName)
    THEN [err |-> "read .biomeignore", patterns |-> dst]
    ELSE [err |-> "", patterns |-> appendPatterns(dst, src.ignoreFile.lines)]

\* Maps with absent keys reading as the empty string.
EmptyMap == <<>>

Lookup(m, k) == IF k \in DOMAIN m THEN m[k] ELSE <<>>

Put(m, k, v) == [x \in DOMAIN m \cup {k} |-> IF x = k THEN v ELSE m[x]]

ZipEntry(name, mode, content) == [name |-> name, mode |-> mode, content |-> content]

\* What the walk has accumulated: the stamps, the removal list and the
\* entries written to the archive.
Walked(acc, ret, err) == [acc |-> acc, ret |-> ret, err |-> err]

bundleOptions(globalIgnore, prevStamps, linkRoot) ==
    [globalIgnore |-> globalIgnore, prevStamps |-> prevStamps, linkRoot |-> linkRoot]

\* A bundle that reads symbolic links without asking for linkRoot.
unsupportedNever(linkRoot0) == FALSE

\* opts.linkRoot == "": the links of src cannot be read.
unsupported(linkRoot0) == linkRoot0 = <<>>

\* The symlink case up to the relative target: [err, target].
relLinkTarget(c, path, node) ==
    LET relative(rel) ==
            IF rel.err THEN [err |-> "rel", target |-> <<>>]
            ELSE [err |-> "", target |-> rel.path]
        checked(linkPath, absLinkTarget, linkTargetRelTop) ==
            IF linkTargetRelTop.err THEN [err |-> "rel", target |-> <<>>]
            ELSE IF ~isSubFilepath(linkTargetRelTop.path)
            THEN [err |-> "symlink refers outside", target |-> <<>>]
            ELSE relative(Rel(Dir(linkPath), absLinkTarget))
        resolved(linkPath, absLinkTarget) ==
            checked(linkPath, absLinkTarget, Rel(c.opts.linkRoot, absLinkTarget))
        read(linkPath, rawLinkTarget) ==
            resolved(linkPath,
                     IF IsAbs(rawLinkTarget) THEN Clean(rawLinkTarget)
                     ELSE Join(Dir(linkPath), rawLinkTarget))
    IN IF unsupported(c.opts.linkRoot)
       THEN [err |-> "found symlink on unsupported file system", target |-> <<>>]
       ELSE IF c.fault = Fault("readlink", path)
       THEN [err |-> "readlink", target |-> <<>>]
       ELSE read(Join(c.opts.linkRoot, path), node.target)

\* Whether the old entry has to be removed before the new one is unpacked,
\* for a new directory, symbolic link and regular file.
removesForDir(oldStamp) == oldStamp # <<>> /\ oldStamp # dirStamp

\* A symlink case that leaves the old entry in place.
removesForLinkNever(oldStamp) == FALSE

removesForLink(oldStamp) == oldStamp # <<>>

removesForFile(oldStamp) == oldStamp # <<>> /\ Type(stampMode(oldStamp)) # ModeRegular

\* The emission of an entry whose stamp changed (the switch of the callback).
emit(c, path, node, info, oldStamp, acc) ==
    LET written(rm, entry) ==
            IF c.fault = Fault("write", path) THEN Walked(acc, "err", "write")
            ELSE Walked([acc EXCEPT !.toRemove = IF rm THEN Append(@, path) ELSE @,
                                    !.entries = Append(@, entry)],
                        "nil", "")
        symlink(link) ==
            IF link.err # "" THEN Walked(acc, "err", link.err)
            ELSE written(removesForLink(oldStamp), ZipEntry(path, info.mode, link.target))
        switch(kind) ==
            CASE kind = ModeDir ->
                   written(removesForDir(oldStamp),
                           ZipEntry(path \o <<"/">>, info.mode, <<>>))
              [] kind = ModeSymlink -> symlink(relLinkTarget(c, path, node))
              [] kind = ModeRegular ->
                   IF c.fault = Fault("open", path) THEN Walked(acc, "err", "open")
                   ELSE written(removesForFile(oldStamp),
                                ZipEntry(path, info.mode, <<>>))
              [] OTHER -> Walked(acc, "err", "not a file, directory, or symlink")
    IN switch(Type(info.mode))

\* A callback that passes over the root only.
passedOverRootOnly(path) == path = Root

\* The entries the callback passes over: the root and the ignore file.
passedOver(path) == path = Root \/ path = ignoreFileName

\* A callback that ignores no entry.
ignoredNever(pat) == FALSE

\* An entry is ignored when the last pattern that matches it is not negated.
ignored(pat) == pat.found /\ ~IsNegated(pat.pat)

\* A callback that never prunes the walk.
ignoredReturnNil(isDir) == "nil"

\* What the callback returns for an ignored entry.
ignoredReturn(isDir) == IF isDir THEN "SkipDir" ELSE "nil"

\* A callback that takes every entry as changed.
\* A bundle that passes over a directory whose stamp has not changed.
unchangedAlsoDir(oldStamp, newStamp, info) == oldStamp = newStamp

unchangedNever(oldStamp, newStamp, info) == FALSE

\* "has not changed"
unchanged(oldStamp, newStamp, info) == oldStamp = newStamp /\ ~ModeIsDir(info.mode)

\* The function that bundle passes to fs.WalkDir.
visit(c, path, walkErr, acc) ==
    LET compared(node, info, oldStamp, newStamp) ==
            IF unchanged(oldStamp, newStamp, info)
            THEN Walked([acc EXCEPT !.newStamps = Put(@, path, newStamp)], "nil", "")
            ELSE emit(c, path, node, info, oldStamp,
                      [acc EXCEPT !.newStamps = Put(@, path, newStamp)])
        stat(node, info) ==
            compared(node, info, Lookup(c.opts.prevStamps, path),
                     readStamp(c.src, path, info))
        matched(node, pat) ==
            IF ignored(pat) THEN Walked(acc, ignoredReturn(node.kind = "dir"), "")
            ELSE IF c.fault = Fault("info", path) THEN Walked(acc, "err", "info")
            ELSE stat(node, InfoOf(node))
        entry(node) == matched(node, LastMatch(c.ignorePatterns, path, node.kind = "dir"))
    IN IF walkErr THEN Walked(acc, "nil", "")
       ELSE IF passedOver(path) THEN Walked(acc, "nil", "")
       ELSE entry(NodeAt(c.src, path))

\* path.Join(name, d1.Name())
EntryPath(dir, name) == IF dir = Root THEN name ELSE dir \o <<"/">> \o name

\* fs.WalkDir below the root: walkDir and its loop over the entries.
RECURSIVE walkDir(_, _, _)
RECURSIVE walkEntries(_, _, _, _)
walkDir(c, name, acc) ==
    LET failed(second) ==
            IF second.ret = "SkipDir" THEN Walked(second.acc, "nil", "") ELSE second
        called(isDir, first) ==
            IF first.ret # "nil" \/ ~isDir
            THEN (IF first.ret = "SkipDir" /\ isDir THEN Walked(first.acc, "nil", "")
                  ELSE first)
            ELSE IF c.fault = Fault("list", name)
            THEN failed(visit(c, name, TRUE, first.acc))
            ELSE walkEntries(c, name, ReadDir(c.src, name), first.acc)
    IN called(NodeAt(c.src, name).kind = "dir", visit(c, name, FALSE, acc))

walkEntries(c, dir, names, acc) ==
    LET walked(r) ==
            IF r.ret = "SkipDir" THEN Walked(r.acc, "nil", "")
            ELSE IF r.ret = "err" THEN r
            ELSE walkEntries(c, dir, Tail(names), r.acc)
    IN IF names = <<>> THEN Walked(acc, "nil", "")
       ELSE walked(walkDir(c, EntryPath(dir, Head(names)), acc))

\* fs.WalkDir(src, ".", fn)
WalkDir(c, acc) ==
    LET walked(r) == IF r.ret = "SkipDir" THEN Walked(r.acc, "nil", "") ELSE r
    IN walked(IF c.fault = Fault("stat", Root) THEN visit(c, Root, TRUE, acc)
              ELSE walkDir(c, Root, acc))

\* A bundle without the loop over prevStamps.
unstampedNone(order, newStamps) == <<>>

\* A bundle whose loop appends every path of prevStamps.
unstampedAll(order, newStamps) == order

\* The paths of prevStamps that the walk did not stamp, in the order in which
\* the range over the map yields them.
RECURSIVE unstamped(_, _)
unstamped(order, newStamps) ==
    IF order = <<>> THEN <<>>
    ELSE (IF Lookup(newStamps, Head(order)) = <<>> THEN <<Head(order)>> ELSE <<>>)
         \o unstamped(Tail(order), newStamps)

\* What bundle returns and what it wrote to out.  A nil map or slice is told
\* apart from an empty one by the field nil.
Returned(nil, newStamps, toRemove, err, entries, closed) ==
    [nil |-> nil, newStamps |-> newStamps, toRemove |-> toRemove, err |-> err,
     out |-> [entries |-> entries, closed |-> closed]]

\* bundle(ctx, out, src, opts); fault is the failure the environment injects
\* into this call and order the iteration order of the range over prevStamps.
bundle(src, opts, fault, order) ==
    LET walked(w) ==
            IF w.ret = "err"
            THEN Returned(TRUE, EmptyMap, <<>>, w.err, w.acc.entries, FALSE)
            ELSE IF fault = Fault("close", Root)
            THEN Returned(TRUE, EmptyMap, <<>>, "close", w.acc.entries, FALSE)
            ELSE Returned(FALSE, w.acc.newStamps,
                          w.acc.toRemove \o unstamped(order, w.acc.newStamps),
                          "", w.acc.entries, TRUE)
        read(ignore) ==
            IF ignore.err # "" THEN Returned(TRUE, EmptyMap, <<>>, ignore.err, <<>>, FALSE)
            ELSE walked(WalkDir([src |-> src, opts |-> opts, fault |-> fault,
                                 ignorePatterns |-> ignore.patterns],
                                [newStamps |-> EmptyMap, toRemove |-> <<>>,
                                 entries |-> <<>>]))
    IN read(readLocalIgnore(opts.globalIgnore, src, fault))

(***************************************************************************)
(* cmd/biome/bundle.go: pushWorkDir, one biome and its host directory      *)
(***************************************************************************)

\* The largest modification time of a file of the tree.
MaxTime == 2

\* The largest number of lines of the ignore file of the tree and of the
\* ignore file of the user's configuration.
MaxLocalLines == 1
MaxGlobalLines == 1

\* The lines an ignore file can hold.
IgnoreLines == { <<"/", "a", "/">>, <<"b">>, <<"!", "b">> }

RECURSIVE SeqsUpTo(_, _)
SeqsUpTo(S, n) ==
    IF n = 0 THEN {<<>>}
    ELSE LET shorter == SeqsUpTo(S, n - 1) IN
         shorter \cup {Append(q, x) : q \in shorter, x \in S}

Nodes ==
    {NoNode, Node("dir", 0, <<>>), Node("device", 1, <<>>)}
    \cup {Node("file", t, <<>>) : t \in 1..MaxTime}
    \cup {Node("symlink", 1, target) : target \in Targets}

\* Links and devices are the leaves of the tree.
Trees ==
    {t \in [Paths -> Nodes] :
        WellFormed(t) /\ \A p \in Paths : t[p].kind \in {"symlink", "device"} => p = PathAB}

IgnoreFiles ==
    {NoFile} \cup {SourceFile(lines) : lines \in SeqsUpTo(IgnoreLines, MaxLocalLines) \ {<<>>}}

GlobalConfigs == SeqsUpTo(IgnoreLines, MaxGlobalLines)

\* The failures the environment can inject into one call of bundle.
Faults(src) ==
    LET present == {p \in Paths : Exists(src.tree[p])}
        of(kind) == {p \in present : src.tree[p].kind = kind}
    IN {NoFault, Fault("stat", Root), Fault("list", Root), Fault("close", Root)}
       \cup (IF src.ignoreFile.exists THEN {Fault("read", ignoreFileName)} ELSE {})
       \cup {Fault("info", p) : p \in present}
       \cup {Fault("write", p) : p \in present}
       \cup {Fault("list", p) : p \in of("dir")}
       \cup {Fault("open", p) : p \in of("file")}
       \cup {Fault("readlink", p) : p \in of("symlink")}

\* The failures that come from the pipe: the reading end was closed.
PipeFaults == {"write", "close"}

\* The orders in which a range over a map can yield its keys.
Orders(m) ==
    {order \in SeqsUpTo(DOMAIN m, Cardinality(DOMAIN m)) :
        Len(order) = Cardinality(DOMAIN m) /\ {order[i] : i \in DOMAIN order} = DOMAIN m}

NoReturn == Returned(TRUE, EmptyMap, <<>>, "", <<>>, FALSE)

(***************************************************************************)
(* io.Pipe, as pushWorkDir uses it between bundle and biome.WriteFile      *)
(***************************************************************************)

ErrClosedPipe == "io: read/write on closed pipe"
EOF == "EOF"

\* A pipe: the error each end was closed with ("" while it is open) and
\* whether a Write is waiting for its bytes to be read.
Pipe(rerr, werr, data) == [rerr |-> rerr, werr |-> werr, data |-> data]

NewPipe == Pipe("", "", FALSE)

\* The done channel of the pipe is closed.
PipeDone(p) == p.rerr # "" \/ p.werr # ""

\* A reading end that stays open when biome.WriteFile has returned.
CloseReadNever(p, e) == p

\* pr.CloseWithError(e)
CloseRead(p, e) ==
    IF p.rerr # "" THEN p
    ELSE [p EXCEPT !.rerr = IF e = "" THEN ErrClosedPipe ELSE e]

\* pw.CloseWithError(e); pw.Close() is pw.CloseWithError(nil)
CloseWrite(p, e) ==
    IF p.werr # "" THEN p
    ELSE [p EXCEPT !.werr = IF e = "" THEN EOF ELSE e]

\* What Write returns on a closed pipe.
writeCloseError(p) == IF p.werr = "" /\ p.rerr # "" THEN p.rerr ELSE ErrClosedPipe

\* What Read returns on a closed pipe.
readCloseError(p) == IF p.rerr = "" /\ p.werr # "" THEN p.werr ELSE ErrClosedPipe

VARIABLES
    tree,        \* the entries of rec.rootHostDir
    ignoreFile,  \* its .biomeignore
    globalLines, \* the lines of the ignore file of the user's configuration
    localFiles,  \* the rows of "local_files" of the biome: path -> stamp
    pc,          \* where pushWorkDir stands
    savepoint,   \* the rows when sqlitex.Save was taken
    before,      \* the rows when pushWorkDir was called
    prevStamps,  \* the local prevStamps
    fault,       \* the failure injected into the call of bundle
    ret,         \* newStamps, toRemove, err of bundle, and what it wrote
    writer,      \* the goroutine that runs biome.WriteFile
    writeErr,    \* what it sent on writeErrChan
    pending,     \* the paths of newStamps still to insert
    err,         \* the result of pushWorkDir
    trace,       \* what this run of pushWorkDir did on the biome and the table
    again,       \* the previous run returned nil, met no failure, and the host is untouched
    linkRoot,    \* opts.linkRoot of a call of bundle
    pipe,        \* pr, pw := io.Pipe(): the errors of its two ends and a write in progress
    left,        \* the writes bundle still has to make into pw
    bundleErr,   \* the err of bundle
    result,      \* what biome.WriteFile returned
    readErr,     \* what ended the reading of pr by biome.WriteFile
    globLine,    \* a line given to ParseLine
    globPat,     \* the Pattern it returned
    globPath,    \* a path given to Match
    globDir,     \* whether its mode is that of a directory
    globMatch,   \* what Match returned
    stampInfo,   \* a fs.FileInfo given to marshalStamp or readStamp
    stampText,   \* the stamp returned
    stampedMode, \* what stampMode returned for it
    pathOS,      \* desc.OS of a call of JoinPath or CleanPath
    pathElem,    \* its elements
    pathOut,     \* the path returned
    bio,         \* a Biome: what its optional methods and its Run do
    fsOp,        \* the function of fs.go that was called
    fsRet,       \* what it returned
    ran,         \* the commands it ran through bio.Run
    db,          \* the rows of env_vars and path_parts of one biome
    envIn,       \* the Environment given to writeBiomeEnvironment
    wrote,       \* the error writeBiomeEnvironment returned
    readBack,    \* what readBiomeEnvironment returned
    catPipe,     \* pr, pw := io.Pipe() of OpenFile and the bytes of the Write in progress
    inv,         \* the goroutine of OpenFile that runs cat and closes pw
    rdr,         \* OpenFile: where it stands and what it returned
    got          \* what the caller has read from the reader and whether it closed it

vars == <<tree, ignoreFile, globalLines, localFiles, pc, savepoint, before, prevStamps,
          fault, ret, writer, writeErr, pending, err, trace, again, linkRoot,
          pipe, left, bundleErr, result, readErr,
          globLine, globPat, globPath, globDir, globMatch,
          stampInfo, stampText, stampedMode, pathOS, pathElem, pathOut,
          bio, fsOp, fsRet, ran, db, envIn, wrote, readBack, catPipe, inv, rdr, got>>

host == <<tree, ignoreFile, globalLines>>

\* What pushWorkDir does not touch: the state of the direct calls.
pipeVars == <<pipe, left, bundleErr, result, readErr>>

globVars == <<globLine, globPat, globPath, globDir, globMatch>>

stampVars == <<stampInfo, stampText, stampedMode>>

\* The arguments and results of the functions that are called on their own.
pathVars == <<pathOS, pathElem, pathOut>>

fsVars == <<bio, fsOp, fsRet, ran>>

envVars == <<db, envIn, wrote, readBack>>

catVars == <<catPipe, inv, rdr, got>>

callVars == <<stampVars, pathVars, fsVars, envVars, catVars>>

apart == <<linkRoot, pipeVars, globVars, callVars>>

\* os.DirFS(rec.rootHostDir)
DirFS == [tree |-> tree, ignoreFile |-> ignoreFile]

\* No pattern is being parsed.
GlobUnused ==
    /\ globLine = <<>>
    /\ globPat = ZeroPattern
    /\ globPath = <<>>
    /\ globDir = FALSE
    /\ globMatch = FALSE

\* No stamp is being computed.
StampUnused ==
    /\ stampInfo = FileInfo(ModeRegular, 0, 0, NoSys)
    /\ stampText = <<>>
    /\ stampedMode = ModeRegular

\* No path is being joined.
PathUnused ==
    /\ pathOS = "linux"
    /\ pathElem = <<>>
    /\ pathOut = <<>>

\* No function of fs.go is called.
FsUnused ==
    /\ bio = <<>>
    /\ fsOp = ""
    /\ fsRet = <<>>
    /\ ran = <<>>

\* No environment is written or read.
EnvUnused ==
    /\ db = <<>>
    /\ envIn = <<>>
    /\ wrote = ""
    /\ readBack = <<>>

\* No file is opened through cat.
CatUnused ==
    /\ catPipe = <<>>
    /\ inv = <<>>
    /\ rdr = <<>>
    /\ got = <<>>

\* No function is called on its own.
CallsUnused == StampUnused /\ PathUnused /\ FsUnused /\ EnvUnused /\ CatUnused

\* No pipe is in use.
PipeUnused ==
    /\ pipe = NewPipe
    /\ left = 0
    /\ bundleErr = ""
    /\ result = ""
    /\ readErr = ""

Init ==
    /\ tree \in Trees
    /\ ignoreFile \in IgnoreFiles
    /\ globalLines \in GlobalConfigs
    /\ localFiles = EmptyMap
    /\ pc = "idle"
    /\ savepoint = EmptyMap
    /\ before = EmptyMap
    /\ prevStamps = EmptyMap
    /\ fault = NoFault
    /\ ret = NoReturn
    /\ writer = "none"
    /\ writeErr = ""
    /\ pending = {}
    /\ err = ""
    /\ trace = <<>>
    /\ again = FALSE
    /\ linkRoot = HostRoot
    /\ PipeUnused
    /\ GlobUnused
    /\ CallsUnused

\* readGlobalIgnore: gitglob.ParseFiles on the configuration's ignore file.
readGlobalIgnore(lines) == appendPatterns(<<>>, lines)

\* A savepoint that is released whatever the function returns.
SaveReleased(e, rows, saved) == rows

\* sqlitex.Save(conn)(&err): the savepoint is rolled back when the function
\* returns an error and released otherwise.
Save(e, rows, saved) == IF e # "" THEN saved ELSE rows

\* A pushWorkDir that goes on without the result of the goroutine.
receivedUnawaited(w) == TRUE

\* writeErr := <-writeErrChan blocks until the goroutine has sent.
received(w) == w = "done"

Event(what, ok) == [what |-> what, ok |-> ok]

\* pushWorkDir returns e: the deferred functions run and the locals are gone.
Return(e, rows, events) ==
    /\ pc' = "returned"
    /\ err' = e
    /\ localFiles' = Save(e, rows, savepoint)
    /\ trace' = events
    /\ pending' = {}
    /\ savepoint' = EmptyMap
    /\ prevStamps' = EmptyMap
    /\ ret' = NoReturn
    /\ writer' = "none"
    /\ writeErr' = ""

\* pushWorkDir up to the savepoint and the read of the previous stamps.
PushStart ==
    /\ pc \in {"idle", "returned"}
    /\ \E failure \in {"", "read global ignore", "read stamps", "generate name"} :
        /\ before' = localFiles
        /\ fault' = NoFault
        /\ again' = (failure = "" /\ pc = "returned" /\ err = "" /\ fault = NoFault)
        /\ IF failure # ""
           THEN /\ pc' = "returned"
                /\ err' = failure
                /\ trace' = <<>>
                /\ pending' = {}
                /\ UNCHANGED <<localFiles, savepoint, prevStamps, ret, writer, writeErr>>
           ELSE /\ pc' = "bundle"
                /\ err' = ""
                /\ savepoint' = localFiles
                /\ prevStamps' = localFiles
                /\ writer' = "running"
                /\ trace' = <<>>
                /\ UNCHANGED <<localFiles, ret, writeErr, pending>>
    /\ UNCHANGED <<host, apart, apart>>

\* The goroutine: biome.WriteFile returns, the reading end of the pipe is
\* closed and the error is sent.  It returns early only when the biome fails.
WriteFileReturns ==
    /\ writer = "running"
    /\ \/ pc = "bundle" /\ writeErr' = "write file"
       \/ pc = "wait" /\ writeErr' \in {"", "write file"}
    /\ writer' = "done"
    /\ trace' = Append(trace, Event("transfer", writeErr' = ""))
    /\ UNCHANGED <<host, apart, localFiles, pc, savepoint, before, prevStamps, fault, ret,
                   pending, err, again>>

\* The call of bundle and pw.Close().
PushBundle ==
    /\ pc = "bundle"
    /\ \E f \in Faults(DirFS), order \in Orders(prevStamps) :
        /\ (f.what \in PipeFaults) = (writer = "done")
        /\ fault' = f
        /\ ret' = bundle(DirFS, bundleOptions(readGlobalIgnore(globalLines), prevStamps,
                                              HostRoot), f, order)
    /\ pc' = "wait"
    /\ UNCHANGED <<host, apart, localFiles, savepoint, before, prevStamps, writer, writeErr,
                   pending, err, trace, again>>

\* The receive from writeErrChan and the two checks that follow it.
PushWait ==
    /\ pc = "wait"
    /\ received(writer)
    /\ IF ret.err # "" THEN Return(ret.err, localFiles, trace)
       ELSE IF writeErr # "" THEN Return(writeErr, localFiles, trace)
       ELSE /\ pc' = IF Len(ret.toRemove) > 0 THEN "remove" ELSE "unzip"
            /\ UNCHANGED <<localFiles, pending, err, trace, savepoint, prevStamps, ret,
                           writer, writeErr>>
    /\ UNCHANGED <<host, apart, before, fault, again>>

\* rm -r -f of the paths of toRemove in the biome.
PushRemove ==
    /\ pc = "remove"
    /\ \E ok \in BOOLEAN :
        LET events == Append(trace, Event("rm", ok)) IN
        IF ok THEN /\ pc' = "unzip"
                   /\ trace' = events
                   /\ UNCHANGED <<localFiles, pending, err, savepoint, prevStamps, ret,
                                  writer, writeErr>>
        ELSE Return("rm", localFiles, events)
    /\ UNCHANGED <<host, apart, before, fault, again>>

\* unzip -o -q of the archive in the biome.
PushUnzip ==
    /\ pc = "unzip"
    /\ \E ok \in BOOLEAN :
        LET events == Append(trace, Event("unzip", ok)) IN
        IF ok THEN /\ pc' = "delete"
                   /\ trace' = events
                   /\ UNCHANGED <<localFiles, pending, err, savepoint, prevStamps, ret,
                                  writer, writeErr>>
        ELSE Return("unzip", localFiles, events)
    /\ UNCHANGED <<host, apart, before, fault, again>>

\* delete from "local_files" where "biome_id" = ?
PushDelete ==
    /\ pc = "delete"
    /\ \E ok \in BOOLEAN :
        LET events == Append(trace, Event("delete", ok)) IN
        IF ok THEN /\ pc' = "insert"
                   /\ localFiles' = EmptyMap
                   /\ pending' = DOMAIN ret.newStamps
                   /\ trace' = events
                   /\ UNCHANGED <<err, savepoint, prevStamps, ret, writer, writeErr>>
        ELSE Return("delete", localFiles, events)
    /\ UNCHANGED <<host, apart, before, fault, again>>

\* One turn of the loop over newStamps, or its end and return nil.
PushInsert ==
    /\ pc = "insert"
    /\ IF pending = {} THEN Return("", localFiles, trace)
       ELSE \E path \in pending, ok \in BOOLEAN :
            LET events == Append(trace, Event("insert", ok)) IN
            IF ok THEN /\ localFiles' = Put(localFiles, path, ret.newStamps[path])
                       /\ pending' = pending \ {path}
                       /\ trace' = events
                       /\ UNCHANGED <<pc, err, savepoint, prevStamps, ret, writer, writeErr>>
            ELSE Return("insert", localFiles, events)
    /\ UNCHANGED <<host, apart, before, fault, again>>

\* Between two runs of pushWorkDir the user edits one entry of the host
\* directory, its ignore file or the configuration.
HostEdit ==
    /\ pc \in {"idle", "returned"}
    /\ \/ /\ \E p \in Paths, n \in Nodes : tree' = [tree EXCEPT ![p] = n]
          /\ tree' \in Trees
          /\ tree' # tree
          /\ UNCHANGED <<ignoreFile, globalLines>>
       \/ /\ ignoreFile' \in IgnoreFiles \ {ignoreFile}
          /\ UNCHANGED <<tree, globalLines>>
       \/ /\ globalLines' \in GlobalConfigs \ {globalLines}
          /\ UNCHANGED <<tree, ignoreFile>>
    /\ pc' = "idle"
    /\ savepoint' = EmptyMap
    /\ before' = EmptyMap
    /\ prevStamps' = EmptyMap
    /\ fault' = NoFault
    /\ ret' = NoReturn
    /\ writer' = "none"
    /\ writeErr' = ""
    /\ pending' = {}
    /\ err' = ""
    /\ trace' = <<>>
    /\ again' = FALSE
    /\ UNCHANGED <<localFiles, apart>>

Next ==
    \/ PushStart
    \/ WriteFileReturns
    \/ PushBundle
    \/ PushWait
    \/ PushRemove
    \/ PushUnzip
    \/ PushDelete
    \/ PushInsert
    \/ HostEdit

Spec == Init /\ [][Next]_vars

(***************************************************************************)
(* cmd/biome/bundle.go: bundle called on its own, as its tests call it     *)
(***************************************************************************)

\* The values of opts.linkRoot: not set, and the directory behind src.
LinkRoots == {<<>>, HostRoot}

\* The variables of pushWorkDir that a direct call of bundle leaves alone.
pushVars == <<localFiles, savepoint, before, writer, writeErr, pending, err, trace, again>>

CallInit ==
    /\ tree \in Trees
    /\ ignoreFile \in IgnoreFiles
    /\ globalLines \in GlobalConfigs
    /\ linkRoot \in LinkRoots
    /\ localFiles = EmptyMap
    /\ pc = "idle"
    /\ savepoint = EmptyMap
    /\ before = EmptyMap
    /\ prevStamps = EmptyMap
    /\ fault = NoFault
    /\ ret = NoReturn
    /\ writer = "none"
    /\ writeErr = ""
    /\ pending = {}
    /\ err = ""
    /\ trace = <<>>
    /\ again = FALSE
    /\ PipeUnused
    /\ GlobUnused
    /\ CallsUnused

\* newStamps, toRemove, err := bundle(ctx, out, src, opts)
CallBundle ==
    /\ pc = "idle"
    /\ \E f \in Faults(DirFS), order \in Orders(prevStamps) :
        /\ fault' = f
        /\ ret' = bundle(DirFS, bundleOptions(readGlobalIgnore(globalLines), prevStamps,
                                              linkRoot), f, order)
    /\ pc' = "called"
    /\ UNCHANGED <<host, linkRoot, prevStamps, pushVars, pipeVars, globVars, callVars>>

\* The caller keeps the stamps of a successful call as the prevStamps of the
\* next one, for which it may set another linkRoot.
CallAgain ==
    /\ pc = "called"
    /\ ret.err = ""
    /\ prevStamps' = ret.newStamps
    /\ linkRoot' \in LinkRoots
    /\ pc' = "idle"
    /\ fault' = NoFault
    /\ ret' = NoReturn
    /\ UNCHANGED <<host, pushVars, pipeVars, globVars, callVars>>

CallNext ==
    \/ CallBundle
    \/ CallAgain

BundleSpec == CallInit /\ [][CallNext]_vars

(***************************************************************************)
(* cmd/biome/bundle.go: pushWorkDir from io.Pipe() to the checks of the    *)
(* two errors, write by write                                              *)
(***************************************************************************)

\* The largest number of writes that bundle makes into the pipe.
MaxWrites == 3

\* What biome.WriteFile can return.
WriteFileResults == {"", "write file"}

\* The variables that the transfer of the archive leaves alone.
restVars == <<host, localFiles, savepoint, before, prevStamps, fault, ret, pending,
              trace, again, linkRoot, globVars, callVars>>

PipeInit ==
    /\ tree = [p \in Paths |-> NoNode]
    /\ ignoreFile = NoFile
    /\ globalLines = <<>>
    /\ localFiles = EmptyMap
    /\ savepoint = EmptyMap
    /\ before = EmptyMap
    /\ prevStamps = EmptyMap
    /\ fault = NoFault
    /\ ret = NoReturn
    /\ pending = {}
    /\ trace = <<>>
    /\ again = FALSE
    /\ linkRoot = HostRoot
    /\ pc = "bundle"
    /\ writer = "running"
    /\ writeErr = ""
    /\ err = ""
    /\ pipe = NewPipe
    /\ left \in 0..MaxWrites
    /\ bundleErr = ""
    /\ result = ""
    /\ readErr = ""
    /\ GlobUnused
    /\ CallsUnused

\* bundle calls Write on pw: on a closed pipe it returns an error at once,
\* else it waits for the reader.
BundleWrites ==
    /\ pc = "bundle"
    /\ left > 0
    /\ IF PipeDone(pipe)
       THEN /\ bundleErr' = writeCloseError(pipe)
            /\ pc' = "close"
            /\ UNCHANGED pipe
       ELSE /\ pipe' = [pipe EXCEPT !.data = TRUE]
            /\ pc' = "writing"
            /\ UNCHANGED bundleErr
    /\ UNCHANGED <<restVars, writer, writeErr, err, left, result, readErr>>

\* The Write returns: its bytes were read, or the pipe was closed meanwhile.
WriteReturns ==
    /\ pc = "writing"
    /\ \/ /\ ~pipe.data
          /\ pc' = "bundle"
          /\ left' = left - 1
          /\ UNCHANGED <<pipe, bundleErr>>
       \/ /\ pipe.data
          /\ PipeDone(pipe)
          /\ pipe' = [pipe EXCEPT !.data = FALSE]
          /\ bundleErr' = writeCloseError(pipe)
          /\ pc' = "close"
          /\ UNCHANGED left
    /\ UNCHANGED <<restVars, writer, writeErr, err, result, readErr>>

\* bundle meets an error of its own, in the walk or in a file of the tree.
BundleFails ==
    /\ pc = "bundle"
    /\ bundleErr' = "bundle"
    /\ pc' = "close"
    /\ UNCHANGED <<restVars, writer, writeErr, err, pipe, left, result, readErr>>

\* bundle has written everything and returns nil.
BundleReturns ==
    /\ pc = "bundle"
    /\ left = 0
    /\ pc' = "close"
    /\ UNCHANGED <<restVars, writer, writeErr, err, pipe, left, bundleErr, result, readErr>>

\* pw.Close()
PipeClose ==
    /\ pc = "close"
    /\ pipe' = CloseWrite(pipe, "")
    /\ pc' = "wait"
    /\ UNCHANGED <<restVars, writer, writeErr, err, left, bundleErr, result, readErr>>

\* writeErr := <-writeErrChan and the checks of err and writeErr.
ReceiveErr ==
    /\ pc = "wait"
    /\ received(writer)
    /\ writeErr' = result
    /\ writer' = "none"
    /\ err' = IF bundleErr # "" THEN bundleErr ELSE result
    /\ pc' = "joined"
    /\ UNCHANGED <<restVars, pipeVars>>

\* biome.WriteFile reads the bytes of the Write in progress.
ReadData ==
    /\ writer = "running"
    /\ pipe.data
    /\ pipe' = [pipe EXCEPT !.data = FALSE]
    /\ UNCHANGED <<restVars, pc, writer, writeErr, err, left, bundleErr, result, readErr>>

\* The Read of biome.WriteFile returns the error of the closed pipe, and
\* biome.WriteFile returns.
ReadEnds ==
    /\ writer = "running"
    /\ ~pipe.data
    /\ PipeDone(pipe)
    /\ readErr' = readCloseError(pipe)
    /\ result' \in (IF readErr' = EOF THEN WriteFileResults ELSE {"write file"})
    /\ writer' = "returned"
    /\ UNCHANGED <<restVars, pc, writeErr, err, pipe, left, bundleErr>>

\* biome.WriteFile returns without reading to the end, with or without an
\* error.
WriteFileStops ==
    /\ writer = "running"
    /\ result' \in WriteFileResults
    /\ writer' = "returned"
    /\ UNCHANGED <<restVars, pc, writeErr, err, pipe, left, bundleErr, readErr>>

\* pr.CloseWithError(err), after which the goroutine sends err.
CloseReader ==
    /\ writer = "returned"
    /\ pipe' = CloseRead(pipe, result)
    /\ writer' = "done"
    /\ UNCHANGED <<restVars, pc, writeErr, err, left, bundleErr, result, readErr>>

PipeNext ==
    \/ BundleWrites
    \/ WriteReturns
    \/ BundleFails
    \/ BundleReturns
    \/ PipeClose
    \/ ReceiveErr
    \/ ReadData
    \/ ReadEnds
    \/ WriteFileStops
    \/ CloseReader

\* Both goroutines keep running: every step that can be taken is taken, but
\* neither bundle nor biome.WriteFile has to fail.
PipeFairness ==
    /\ WF_vars(BundleWrites)
    /\ WF_vars(WriteReturns)
    /\ WF_vars(BundleReturns)
    /\ WF_vars(PipeClose)
    /\ WF_vars(ReceiveErr)
    /\ WF_vars(ReadData)
    /\ WF_vars(ReadEnds)
    /\ WF_vars(CloseReader)

PipeSpec == PipeInit /\ [][PipeNext]_vars /\ PipeFairness

(***************************************************************************)
(* internal/gitglob: ParseLine and Match applied to lines and paths        *)
(***************************************************************************)

\* The most members of a character class of LineSet and the most segments
\* of a path of PathSet.
MaxClassItems == 2
MaxSegments == 3

\* The members of a character class: a text and the range of runes it lists.
ClassItem(text, lo, hi) == [text |-> text, lo |-> lo, hi |-> hi]

ClassItems ==
    { ClassItem(<<"a">>, "a", "a"), ClassItem(<<"1">>, "1", "1"),
      ClassItem(<<"a", "-", "z">>, "a", "z"), ClassItem(<<"A", "-", "Z">>, "A", "Z"),
      ClassItem(<<"0", "-", "1">>, "0", "1"), ClassItem(<<"-", "-", "0">>, "-", "0"),
      ClassItem(<<"A", "-", "\\">>, "A", "\\") }

\* A character class: negated or not, and its members in order.  A range
\* that starts with "-" stands first.
ClassSpecs ==
    { cs \in [neg : BOOLEAN, items : SeqsUpTo(ClassItems, MaxClassItems)] :
        /\ Len(cs.items) >= 1
        /\ \A i \in 2..Len(cs.items) : cs.items[i].lo # "-" }

RECURSIVE ItemsText(_)
ItemsText(items) == IF items = <<>> THEN <<>> ELSE Head(items).text \o ItemsText(Tail(items))

\* The line f[...] or f[!...] of a character class.
ClassText(cs) ==
    <<"f", "[">> \o (IF cs.neg THEN <<"!">> ELSE <<>>) \o ItemsText(cs.items) \o <<"]">>

\* Lines with a syntax error: invalid UTF-8, an unterminated bracket, a
\* descending range, a "/" in a class.
BadLines == { <<InvalidByte>>, <<"[", "a">>, <<"f", "[", "c", "-", "a", "]">>, <<"*", "f", "[", "/", "]">> }

\* Names with spaces, tabs and backslashes at their ends.
SpaceLines ==
    { <<"a", " ">>, <<"a", " ", " ">>, <<"a", "\t">>, <<" ", "a">>,
      <<"a", "\\", " ">>, <<"a", "\\", " ", " ">>, <<"a", "\\", "\t">>,
      <<"\\", " ">>, <<"a", "\\">>, <<"a", "\\", "\\">>,
      <<"a", "\\", "\\", " ">>, <<"\t", " ">> }

LineSet ==
    BadLines \cup { ClassText(cs) : cs \in ClassSpecs } \cup SpaceLines
    \cup { <<>>,
        <<" ", " ">>,
        <<"#", " ", "c">>,
        <<"a">>,
        <<"/", "a">>,
        <<"a", "/", "b">>,
        <<"/", "a", "/", "b">>,
        <<"*">>,
        <<"/", "*">>,
        <<"*", "/", "b">>,
        <<"a", "/", "*">>,
        <<"a", "/", "*", "*", "/", "b">>,
        <<"*", "*", "/", "a">>,
        <<"/", "*", "*", "/", "a">>,
        <<"*", "*", "/", "a", "/", "b">>,
        <<"a", "/", "*", "*">>,
        <<"/", "a", "/", "*", "*">>,
        <<"a", "/", "b", "/", "*", "*">>,
        <<"*", "*", "/", "a", "/", "*", "*">>,
        <<"*", "*">>,
        <<"/", "*", "*">>,
        <<"!", "a">>,
        <<"a", "/">>,
        <<"\\", "!", "a">>,
        <<"f", "?">> }

Segments == {<<"a">>, <<"b">>, <<"c">>}

RECURSIVE PathsOfDepth(_)
PathsOfDepth(n) ==
    IF n = 1 THEN Segments
    ELSE {p \o <<"/">> \o seg : p \in PathsOfDepth(n - 1), seg \in Segments}

\* The runes tried against a character class.
ClassChars == {"a", "b", "z", "A", "Z", "0", "1", "-", ".", "/", "\\", "]", "^", "!"}

\* The paths that are not the path of an entry below the root: empty, with
\* a separator at an end, with an empty element, with "." or "..".
OddPaths ==
    { <<>>, <<"/", "a">>, <<"a", "/">>, <<"a", "/", "/", "b">>, <<".">>, <<".", ".">>,
      <<".", "/", "a">>, <<"a", "/", ".">>, <<"a", "/", ".", ".">>, <<"a", "/", ".", "/", "b">> }

\* Names that end with a space, a tab or a backslash.
SpacePaths ==
    { <<"a", " ">>, <<"a", " ", " ">>, <<"a", "\t">>, <<" ", "a">>, <<" ">>,
      <<"a", "\\">>, <<"a", "\\", " ">>, <<"c", "/", "a", " ">> }

PathSet ==
    UNION {PathsOfDepth(n) : n \in 1..MaxSegments} \cup {<<"f", c>> : c \in ClassChars}
    \cup OddPaths \cup SpacePaths

\* The variables of pushWorkDir and of its pipe, which ParseLine and Match
\* leave alone.
nonGlobVars == <<host, localFiles, savepoint, before, prevStamps, fault, ret, writer,
                 writeErr, pending, err, trace, again, linkRoot, pipeVars, callVars>>

GlobInit ==
    /\ tree = [p \in Paths |-> NoNode]
    /\ ignoreFile = NoFile
    /\ globalLines = <<>>
    /\ localFiles = EmptyMap
    /\ savepoint = EmptyMap
    /\ before = EmptyMap
    /\ prevStamps = EmptyMap
    /\ fault = NoFault
    /\ ret = NoReturn
    /\ writer = "none"
    /\ writeErr = ""
    /\ pending = {}
    /\ err = ""
    /\ trace = <<>>
    /\ again = FALSE
    /\ linkRoot = HostRoot
    /\ PipeUnused
    /\ pc = "line"
    /\ globLine \in LineSet
    /\ globPat = ZeroPattern
    /\ globPath = <<>>
    /\ globDir = FALSE
    /\ globMatch = FALSE
    /\ CallsUnused

\* pat := ParseLine(line)
GlobParse ==
    /\ pc = "line"
    /\ globPat' = ParseLine(globLine)
    /\ pc' = "parsed"
    /\ UNCHANGED <<nonGlobVars, globLine, globPath, globDir, globMatch>>

\* pat.Match(path, mode), unless ParseLine has panicked.
GlobMatch ==
    /\ pc = "parsed"
    /\ globPat.re.kind # "panic"
    /\ \E path \in PathSet, isDir \in BOOLEAN :
        /\ globPath' = path
        /\ globDir' = isDir
        /\ globMatch' = Match(globPat, path, isDir)
    /\ pc' = "matched"
    /\ UNCHANGED <<nonGlobVars, globLine, globPat>>

GlobNext ==
    \/ GlobParse
    \/ GlobMatch

GlobSpec == GlobInit /\ [][GlobNext]_vars

(***************************************************************************)
(* readStamp, marshalStamp and stampMode, called on their own               *)
(***************************************************************************)

\* The state of pushWorkDir, of its pipe and of the patterns, not in use.
RestUnused ==
    /\ ignoreFile = NoFile
    /\ globalLines = <<>>
    /\ localFiles = EmptyMap
    /\ savepoint = EmptyMap
    /\ before = EmptyMap
    /\ prevStamps = EmptyMap
    /\ fault = NoFault
    /\ ret = NoReturn
    /\ writer = "none"
    /\ writeErr = ""
    /\ pending = {}
    /\ err = ""
    /\ trace = <<>>
    /\ again = FALSE
    /\ linkRoot = HostRoot
    /\ PipeUnused
    /\ GlobUnused

restOfPush == <<ignoreFile, globalLines, localFiles, savepoint, before, prevStamps, fault,
                ret, writer, writeErr, pending, err, trace, again, linkRoot, pipeVars,
                globVars>>

NoTree == [p \in Paths |-> NoNode]

\* Modification times in microseconds, before and after 1970.
StampTimes == {-1500000, -1, 0, 1, 999999, 123456789}

StampSizes == {0, 1024}

StampSys == {NoSys, Stat_t(0, 0, 0), Stat_t(7, 1000, 100)}

StampModes ==
    { WithPerm(ModeRegular, PermFile), WithPerm(ModeSymlink, PermAll),
      WithPerm(ModeDir, PermDir), WithPerm(ModeDevice, PermFile) }

StampInfos ==
    { FileInfo(m, t, n, sys) : m \in StampModes, t \in StampTimes, n \in StampSizes,
                               sys \in StampSys }

\* The trees in which a/b is a symbolic link.
LinkTrees == { t \in Trees : t[PathAB].kind = "symlink" }

\* info is what Lstat returned for a/b.
StampInit ==
    /\ PathUnused
    /\ FsUnused
    /\ EnvUnused
    /\ CatUnused
    /\ stampInfo \in StampInfos
    /\ tree \in IF Type(stampInfo.mode) = ModeSymlink THEN LinkTrees ELSE {NoTree}
    /\ stampText = <<>>
    /\ stampedMode = ModeRegular
    /\ pc = "info"
    /\ RestUnused

\* marshalStamp(info)
StampMarshal ==
    /\ pc = "info"
    /\ stampText' = marshalStamp(stampInfo)
    /\ pc' = "marshalled"
    /\ UNCHANGED <<tree, restOfPush, pathVars, fsVars, envVars, catVars, stampInfo, stampedMode>>

\* newStamp := readStamp(src, path, info)
StampRead ==
    /\ pc = "info"
    /\ stampText' = readStamp(DirFS, PathAB, stampInfo)
    /\ pc' = "read"
    /\ UNCHANGED <<tree, restOfPush, pathVars, fsVars, envVars, catVars, stampInfo, stampedMode>>

\* mode := stampMode(oldStamp), on a later call
StampMode ==
    /\ pc = "read"
    /\ stampedMode' = stampMode(stampText)
    /\ pc' = "moded"
    /\ UNCHANGED <<tree, restOfPush, pathVars, fsVars, envVars, catVars, stampInfo, stampText>>

StampNext ==
    \/ StampMarshal
    \/ StampRead
    \/ StampMode

StampSpec == StampInit /\ [][StampNext]_vars

(***************************************************************************)
(* paths.go: JoinPath and CleanPath in the two dialects                     *)
(***************************************************************************)

Linux == "linux"
Windows == "windows"

Separator == "\\"

isSlash(c) == c \in {"\\", "/"}

\* strings.Join(elems, sep)
RECURSIVE JoinWith(_, _)
JoinWith(elems, sep) ==
    IF elems = <<>> THEN <<>>
    ELSE IF Len(elems) = 1 THEN elems[1]
    ELSE elems[1] \o <<sep>> \o JoinWith(Tail(elems), sep)

\* The elements from the first one that is not empty.
RECURSIVE fromNonEmpty(_)
fromNonEmpty(elems) ==
    IF elems = <<>> \/ Head(elems) # <<>> THEN elems ELSE fromNonEmpty(Tail(elems))

\* path.Join (Go standard library): empty elements are passed over until
\* the buffer holds something, then every element is appended after a "/".
slashpathJoin(elems) ==
    IF fromNonEmpty(elems) = <<>> THEN <<>>
    ELSE Clean(JoinWith(fromNonEmpty(elems), "/"))

\* windowspath.FromSlash
RECURSIVE FromSlash(_)
FromSlash(path) ==
    IF path = <<>> THEN <<>>
    ELSE <<IF path[1] = "/" THEN Separator ELSE path[1]>> \o FromSlash(Tail(path))

DriveLetters == {"C", "c"}

\* The offset of the first separator of path at or after offset n, or the
\* length of path.
RECURSIVE nextSlash(_, _)
nextSlash(path, n) ==
    IF n >= Len(path) \/ isSlash(path[n + 1]) THEN n ELSE nextSlash(path, n + 1)

\* windowspath.volumeNameLen: the length of a leading drive letter or of a
\* leading \\host\share.
volumeNameLen(path) ==
    LET share(n) ==
            IF n + 1 >= Len(path) THEN 0
            ELSE IF isSlash(path[n + 2]) \/ path[n + 2] = "." THEN 0
            ELSE nextSlash(path, n + 1)
        server(n) == IF n >= Len(path) - 1 THEN 0 ELSE share(n)
    IN IF Len(path) < 2 THEN 0
       ELSE IF path[2] = ":" /\ path[1] \in DriveLetters THEN 2
       ELSE IF Len(path) >= 5 /\ isSlash(path[1]) /\ isSlash(path[2])
               /\ ~isSlash(path[3]) /\ path[3] # "."
       THEN server(nextSlash(path, 3))
       ELSE 0

isUNC(path) == volumeNameLen(path) > 2

\* strings.Split(s, "\\")
RECURSIVE SplitSeparator(_)
SplitSeparator(s) ==
    IF ~Contains(s, Separator) THEN <<s>>
    ELSE LET i == CHOOSE k \in 1..Len(s) : s[k] = Separator /\ \A j \in 1..(k - 1) : s[j] # Separator
         IN <<SubSeq(s, 1, i - 1)>> \o SplitSeparator(Drop(s, i))

\* windowspath.Clean: the volume is kept, the rest is cleaned as by
\* path.Clean with both separators, and the result has only "\\".
windowsClean(originalPath) ==
    LET joined(vol, rooted, kept) ==
            IF rooted THEN vol \o <<Separator>> \o JoinWith(kept, Separator)
            ELSE IF kept = <<>> THEN vol \o <<".">>
            ELSE vol \o JoinWith(kept, Separator)
        cleaned(vol, path) ==
            IF path = <<>>
            THEN IF Len(vol) > 1 /\ originalPath[2] # ":" THEN FromSlash(originalPath)
                 ELSE originalPath \o <<".">>
            ELSE joined(FromSlash(vol), isSlash(path[1]),
                        cleanSegs(SplitSeparator(FromSlash(path)), isSlash(path[1]), <<>>))
        split(volLen) == cleaned(SubSeq(originalPath, 1, volLen), Drop(originalPath, volLen))
    IN split(volumeNameLen(originalPath))

\* windowspath.joinNonEmpty: the first element is not empty.
joinNonEmpty(elem) ==
    LET undo(head, tail) ==
            IF head[Len(head)] = Separator THEN head \o tail
            ELSE head \o <<Separator>> \o tail
        guarded(p) ==
            IF ~isUNC(p) \/ isUNC(windowsClean(elem[1])) THEN p
            ELSE undo(windowsClean(elem[1]), windowsClean(JoinWith(Tail(elem), Separator)))
    IN IF Len(elem[1]) = 2 /\ elem[1][2] = ":"
       THEN windowsClean(elem[1] \o JoinWith(fromNonEmpty(Tail(elem)), Separator))
       ELSE guarded(windowsClean(JoinWith(elem, Separator)))

\* windowspath.Join
windowspathJoin(elems) ==
    IF fromNonEmpty(elems) = <<>> THEN <<>> ELSE joinNonEmpty(fromNonEmpty(elems))

\* JoinPath joins any number of path elements into a single path.
JoinPath(os, elem) ==
    IF os = Windows THEN windowspathJoin(elem) ELSE slashpathJoin(elem)

\* A CleanPath that hands the empty path to JoinPath.
CleanPathJoined(os, path) == JoinPath(os, <<path>>)

\* CleanPath returns the shortest path name equivalent to path.
CleanPath(os, path) ==
    IF path = <<>> THEN <<".">> ELSE JoinPath(os, <<path>>)

\* The largest number of elements given to JoinPath.
MaxElems == 3

\* The elements given to JoinPath.
ElemSet ==
    { <<>>, <<"a">>, <<"b", "/", "c">>, <<"/">>, <<".", ".">>, <<"C", ":">>,
      <<"\\", "\\", "a">>, <<"a", "\\">> }

PathInit ==
    /\ pathOS \in {Linux, Windows}
    /\ pathElem \in SeqsUpTo(ElemSet, MaxElems)
    /\ pathOut = <<>>
    /\ pc = "elem"
    /\ tree = NoTree
    /\ RestUnused
    /\ StampUnused
    /\ FsUnused
    /\ EnvUnused
    /\ CatUnused

\* JoinPath(desc, elem...)
PathJoin ==
    /\ pc = "elem"
    /\ pathOut' = JoinPath(pathOS, pathElem)
    /\ pc' = "joined"
    /\ UNCHANGED <<tree, restOfPush, stampVars, fsVars, envVars, catVars, pathOS, pathElem>>

\* CleanPath(desc, path)
PathClean ==
    /\ pc = "elem"
    /\ Len(pathElem) = 1
    /\ pathOut' = CleanPath(pathOS, pathElem[1])
    /\ pc' = "cleaned"
    /\ UNCHANGED <<tree, restOfPush, stampVars, fsVars, envVars, catVars, pathOS, pathElem>>

PathNext ==
    \/ PathJoin
    \/ PathClean

PathSpec == PathInit /\ [][PathNext]_vars

(***************************************************************************)
(* fs.go: the functions with an optional method and a fallback command      *)
(***************************************************************************)

\* An error is the chain of its messages, the wrapped error last; the nil
\* error is the empty chain.
noErr == <<>>

ErrUnsupported == <<"unsupported">>

\* fmt.Errorf("...: %w", err)
Wrap(msg, e) == <<msg>> \o e

\* An errors.Is that compares the error itself, not what it wraps.
errorsIsSame(e, target) == e = target

\* errors.Is(err, target)
errorsIs(e, target) == target # noErr /\ \E i \in 0..Len(e) : Drop(e, i) = target

\* What a call returns: a value (a reader, a path) and an error.
Ret(val, e) == [val |-> val, err |-> e]

\* What an optional method of a biome does, if the biome has it.
Method(has, r) == [has |-> has, ret |-> r]

\* What bio.Run does for the command: its error and what it wrote.
RunResult(e, stdout, stderr) == [err |-> e, stdout |-> stdout, stderr |-> stderr]

\* if err != nil { if stderr.Len() == 0 { %w of err } else { stderr } }
runError(prefix, run) ==
    IF run.stderr = "" THEN Wrap(prefix, run.err) ELSE <<prefix, run.stderr>>

\* forwardOpenFile, forwardWriteFile, forwardMkdirAll, forwardEvalSymlinks
forward(method, prefix) ==
    IF ~method.has THEN Ret("", Wrap(prefix, ErrUnsupported)) ELSE method.ret

\* What a function returned and the commands it ran.
Outcome(r, argv) == [ret |-> r, ran |-> argv]

\* OpenFile: the first Read of the pipe ends with io.EOF after a small
\* output, returns no byte when the command fails at once, or returns the
\* start of a larger output.
OpenFile(b) ==
    LET fallback(run) ==
            IF run.err = noErr /\ run.stdout # "large" THEN Ret("buffer", noErr)
            ELSE IF run.stdout = "" THEN Ret("", runError("open file", run))
            ELSE Ret("catStream", noErr)
        forwarded(f) ==
            IF ~errorsIs(f.err, ErrUnsupported) THEN Outcome(f, <<>>)
            ELSE Outcome(fallback(b.run), <<"cat">>)
    IN forwarded(forward(b.OpenFile, "open file"))

\* WriteFile
WriteFile(b) ==
    LET fallback(run) ==
            IF run.err # noErr THEN Ret("", runError("write file", run)) ELSE Ret("", noErr)
        forwarded(f) ==
            IF ~errorsIs(f.err, ErrUnsupported) THEN Outcome(f, <<>>)
            ELSE Outcome(fallback(b.run), <<"tee">>)
    IN forwarded(forward(b.WriteFile, "write file"))

\* MkdirAll
MkdirAll(b) ==
    LET fallback(run) ==
            IF run.err # noErr THEN Ret("", runError("mkdir -p", run)) ELSE Ret("", noErr)
        forwarded(f) ==
            IF ~errorsIs(f.err, ErrUnsupported) THEN Outcome(f, <<>>)
            ELSE Outcome(fallback(b.run), <<"mkdir">>)
    IN forwarded(forward(b.MkdirAll, "mkdir -p"))

\* EvalSymlinks
EvalSymlinks(b) ==
    LET fallback(run) ==
            IF run.err # noErr THEN Ret("", runError("eval symlinks for", run))
            ELSE Ret(<<"CleanPath", run.stdout>>, noErr)
        forwarded(f) ==
            IF ~errorsIs(f.err, ErrUnsupported) THEN Outcome(f, <<>>)
            ELSE Outcome(fallback(b.run), <<IF b.OS = Linux THEN "readlink" ELSE "python">>)
    IN forwarded(forward(b.EvalSymlinks, "eval symlinks"))

\* What an optional method can return.
MethodRets ==
    { Ret("value", noErr), Ret("", ErrUnsupported), Ret("value", ErrUnsupported),
      Ret("", Wrap("not here", ErrUnsupported)), Ret("", <<"denied">>),
      Ret("", Wrap("denied", <<"exit 1">>)) }

Methods == {Method(FALSE, Ret("", noErr))} \cup {Method(TRUE, r) : r \in MethodRets}

RunResults ==
    { RunResult(noErr, "", ""), RunResult(noErr, "small", ""), RunResult(noErr, "large", ""),
      RunResult(<<"exit 1">>, "", ""), RunResult(<<"exit 1">>, "", "no such file"),
      RunResult(<<"exit 1">>, "large", "") }

\* The biomes of the model.
Biomes ==
    { [OS |-> os, OpenFile |-> m1, WriteFile |-> m2, MkdirAll |-> m3, EvalSymlinks |-> m4,
       run |-> r] :
        os \in {Linux, Windows}, m1 \in Methods, m2 \in Methods,
        m3 \in {Method(FALSE, Ret("", noErr)), Method(TRUE, Ret("", <<"denied">>))},
        m4 \in Methods, r \in RunResults }

FsInit ==
    /\ bio \in Biomes
    /\ fsOp = ""
    /\ fsRet = <<>>
    /\ ran = <<>>
    /\ pc = "biome"
    /\ tree = NoTree
    /\ RestUnused
    /\ StampUnused
    /\ PathUnused
    /\ EnvUnused
    /\ CatUnused

\* The call of one of the functions returns.
Returns(op, outcome) ==
    /\ pc = "biome"
    /\ fsOp' = op
    /\ fsRet' = outcome.ret
    /\ ran' = outcome.ran
    /\ pc' = "returned"
    /\ UNCHANGED <<tree, restOfPush, stampVars, pathVars, envVars, catVars, bio>>

CallOpenFile == Returns("OpenFile", OpenFile(bio))

CallWriteFile == Returns("WriteFile", WriteFile(bio))

CallMkdirAll == Returns("MkdirAll", MkdirAll(bio))

CallEvalSymlinks == Returns("EvalSymlinks", EvalSymlinks(bio))

FsNext ==
    \/ CallOpenFile
    \/ CallWriteFile
    \/ CallMkdirAll
    \/ CallEvalSymlinks

FsSpec == FsInit /\ [][FsNext]_vars

(***************************************************************************)
(* cmd/biome/main.go: the environment of a biome in the database           *)
(***************************************************************************)

\* biome.Environment
Environment(Vars, PrependPath, AppendPath) ==
    [Vars |-> Vars, PrependPath |-> PrependPath, AppendPath |-> AppendPath]

\* The rows of one biome: env_vars by name, path_parts by position and index.
Rows(env_vars, path_parts) == [env_vars |-> env_vars, path_parts |-> path_parts]

\* X regexp '[^c]+' with the regexp function of main.go 109-133: the text
\* holds a character that is not c.
regexpNot(c, text) == \E i \in DOMAIN text : text[i] # c

\* check ("name" regexp '[^=]+')
nameCheck(name) == regexpNot("=", name)

\* check ("directory" regexp '[^:]+')
directoryCheck(directory) == regexpNot(":", directory)

\* A prepared statement with its bound parameters.
Stmt(binds) == binds

\* stmt.BindText(param, value), stmt.BindInt64(param, value)
Bind(stmt, param, value) == [stmt EXCEPT ![param] = value]

\* What a step of an insert does: the table, or the constraint that failed.
Stepped(table, e) == [table |-> table, err |-> e]

\* insertPathPartStmt.Step(): insert into "path_parts" ("biome_id",
\* "position", "index", "directory") values (?, ?, ?, ?), under the checks
\* and the primary key of the table.
stepPathPart(stmt, table) ==
    IF stmt[2] \notin {"prepend", "append"} THEN Stepped(table, "check position")
    ELSE IF stmt[3] \notin Nat THEN Stepped(table, "check index")
    ELSE IF ~directoryCheck(stmt[4]) THEN Stepped(table, "check directory")
    ELSE IF <<stmt[2], stmt[3]>> \in DOMAIN table THEN Stepped(table, "primary key")
    ELSE Stepped(Put(table, <<stmt[2], stmt[3]>>, stmt[4]), "")

\* insertPathParts(parts): i is the index of the next part.
RECURSIVE insertPathParts(_, _, _, _)
insertPathParts(stmt, parts, i, table) ==
    LET bound(st) ==
            LET stepped(r) ==
                    IF r.err # "" THEN [r EXCEPT !.table = table]
                    ELSE insertPathParts(st, parts, i + 1, r.table)
            IN stepped(stepPathPart(st, table))
    IN IF i >= Len(parts) THEN Stepped(table, "")
       ELSE bound(Bind(Bind(stmt, 3, i), 4, parts[i + 1]))

\* The loop over e.Vars: insert into "env_vars".  The names of a map are
\* distinct and the rows of the biome were deleted, so the primary key holds
\* and the loop fails, in whatever order it runs, exactly when a name fails
\* its check.
insertVars(Vars) ==
    IF \E k \in DOMAIN Vars : ~nameCheck(k) THEN Stepped(<<>>, "set")
    ELSE Stepped(Vars, "")

\* writeBiomeEnvironment(conn, id, e) without its savepoint: the rows it
\* leaves and its error.
writeRows(e) ==
    LET written(ins, stmt) ==
            LET prepended(pre) ==
                    LET appended(app) == [rows |-> Rows(ins.table, app.table), err |-> app.err]
                    IN IF pre.err # "" THEN [rows |-> Rows(ins.table, pre.table), err |-> pre.err]
                       ELSE appended(insertPathParts(Bind(stmt, 3, "append"), e.AppendPath, 0,
                                                     pre.table))
            IN IF ins.err # "" THEN [rows |-> Rows(<<>>, <<>>), err |-> ins.err]
               ELSE prepended(insertPathParts(stmt, e.PrependPath, 0, <<>>))
    IN written(insertVars(e.Vars),
               Bind(Bind(Stmt(<<"", "", "", "">>), 1, "id"), 2, "prepend"))

\* writeBiomeEnvironment(conn, id, e)
writeBiomeEnvironment(rows, e) ==
    LET saved(w) == [rows |-> Save(w.err, w.rows, rows), err |-> w.err]
    IN saved(writeRows(e))

\* The directories of the rows of a position, order by "index" asc.
RECURSIVE byIndex(_, _, _)
byIndex(table, position, indexes) ==
    LET first(i) == <<table[<<position, i>>]>> \o byIndex(table, position, indexes \ {i})
    IN IF indexes = {} THEN <<>>
       ELSE first(CHOOSE i \in indexes : \A j \in indexes : i <= j)

\* select "directory" from "path_parts" where "position" = :position
pathPartsQuery(table, position) ==
    byIndex(table, position, {k[2] : k \in {x \in DOMAIN table : x[1] = position}})

\* readBiomeEnvironment(conn, id)
readBiomeEnvironment(rows) ==
    Environment(rows.env_vars, pathPartsQuery(rows.path_parts, "prepend"),
                pathPartsQuery(rows.path_parts, "append"))

MaxParts == 2

\* Names and values of variables, and directories.
EnvNames == { <<>>, <<"A">>, <<"=">> }

EnvValues == { <<>>, <<"v">> }

EnvDirs == { <<"x">>, <<"y">>, <<":">> }

Environments ==
    { Environment(v, pre, app) :
        v \in UNION {[names -> EnvValues] : names \in SUBSET EnvNames},
        pre \in SeqsUpTo(EnvDirs, MaxParts), app \in SeqsUpTo(EnvDirs, MaxParts) }

\* The rows an earlier write left.
OldRows ==
    { Rows(<<>>, <<>>),
      Rows(<<"A">> :> <<"old">>,
           (<<"prepend", 0>> :> <<"o">>) @@ (<<"append", 0>> :> <<"p">>)) }

EnvInit ==
    /\ db \in OldRows
    /\ envIn \in Environments
    /\ wrote = ""
    /\ readBack = <<>>
    /\ pc = "env"
    /\ tree = NoTree
    /\ RestUnused
    /\ StampUnused
    /\ PathUnused
    /\ FsUnused
    /\ CatUnused

\* writeBiomeEnvironment(conn, id, e)
EnvWrite ==
    /\ pc = "env"
    /\ db' = writeBiomeEnvironment(db, envIn).rows
    /\ wrote' = writeBiomeEnvironment(db, envIn).err
    /\ pc' = "written"
    /\ UNCHANGED <<tree, restOfPush, stampVars, pathVars, fsVars, catVars, envIn, readBack>>

\* readBiomeEnvironment(conn, id)
EnvRead ==
    /\ pc = "written"
    /\ readBack' = readBiomeEnvironment(db)
    /\ pc' = "read"
    /\ UNCHANGED <<tree, restOfPush, stampVars, pathVars, fsVars, catVars, db, envIn, wrote>>

EnvNext ==
    \/ EnvWrite
    \/ EnvRead

EnvSpec == EnvInit /\ [][EnvNext]_vars

(***************************************************************************)
(* fs.go: OpenFile through cat, its goroutine and the reader it returns     *)
(***************************************************************************)

\* The size of the buffer of the first Read: 4096 in the code, scaled.
BufSize == 2

MaxChunks == 2

\* The sizes of the Writes of the invocation to Stdout.
ChunkSizes == {0, 1, 3}

ReadSizes == {1, 2}

Least(a, b) == IF a < b THEN a ELSE b

\* The bytes from, from + 1, ... of the output: byte k of the output is k.
Bytes(from, n) == [i \in 1..n |-> from + i - 1]

\* A pipe in which no Write is in progress.  The data of a pipe is <<>>, or
\* <<b>> while a Write of the bytes b waits for Reads to take them.
NewCatPipe == Pipe("", "", <<>>)

\* pr.Read(p) can return: the pipe is closed or a Write is in progress.
canRead(p) == PipeDone(p) \/ p.data # <<>>

\* pr.Read(p) with len(p) = size: the error of the closed pipe, or the
\* first bytes of the Write in progress, which goes on with the rest and
\* returns when none is left.
pipeRead(p, size) ==
    LET taken(b, n) ==
            [pipe |-> [p EXCEPT !.data = IF n = Len(b) THEN <<>> ELSE <<Drop(b, n)>>],
             bytes |-> SubSeq(b, 1, n), err |-> ""]
    IN IF PipeDone(p) THEN [pipe |-> p, bytes |-> <<>>, err |-> readCloseError(p)]
       ELSE taken(p.data[1], Least(size, Len(p.data[1])))

\* The goroutine: where it stands (in Run between Writes, in a Write, Run
\* has returned, pw is closed), the sizes of the Writes still to make, the
\* number of bytes Reads have taken, the error and the stderr that Run ends
\* with if nothing stops it, and the error Run returned.
Invocation(at, todo, next, sent, e, stderr, returned) ==
    [at |-> at, todo |-> todo, next |-> next, sent |-> sent, err |-> e,
     stderr |-> stderr, ret |-> returned]

\* OpenFile: where it stands, what it returned (a reader over buf, a
\* catStream or an error), buf, the error, and whether cancel was called.
Opened(at, kind, buf, e, canceled) ==
    [at |-> at, kind |-> kind, buf |-> buf, err |-> e, canceled |-> canceled]

\* The caller: the bytes it has read, the error that ended its reads and
\* whether it has called Close.
Caller(bytes, e, closed) == [bytes |-> bytes, err |-> e, closed |-> closed]

\* The invocation after a Read took n bytes and left the pipe as p.
afterRead(p, n) ==
    [inv EXCEPT !.sent = @ + n, !.at = IF p.data = <<>> /\ @ = "write" THEN "run" ELSE @]

\* What Run ends with when nothing stops it.
Endings == { [err |-> "", stderr |-> ""], [err |-> "exit 1", stderr |-> ""],
             [err |-> "exit 1", stderr |-> "no such file"] }

CatInit ==
    /\ catPipe = NewCatPipe
    /\ \E todo \in SeqsUpTo(ChunkSizes, MaxChunks), end \in Endings :
           inv = Invocation("run", todo, 1, 0, end.err, end.stderr, "")
    /\ rdr = Opened("open", "", <<>>, <<>>, FALSE)
    /\ got = Caller(<<>>, "", FALSE)
    /\ pc = "cat"
    /\ tree = NoTree
    /\ RestUnused
    /\ StampUnused
    /\ PathUnused
    /\ FsUnused
    /\ EnvUnused

\* bio.Run calls pw.Write(b): on a closed pipe it fails at once and the
\* invocation ends; else the Write waits for Reads.
InvWrite ==
    /\ inv.at = "run"
    /\ inv.todo # <<>>
    /\ IF PipeDone(catPipe)
       THEN /\ inv' = [inv EXCEPT !.at = "ended", !.ret = writeCloseError(catPipe)]
            /\ UNCHANGED catPipe
       ELSE /\ catPipe' = [catPipe EXCEPT !.data = <<Bytes(inv.next, Head(inv.todo))>>]
            /\ inv' = [inv EXCEPT !.at = "write", !.todo = Tail(@),
                                  !.next = @ + Head(inv.todo)]
    /\ UNCHANGED <<tree, restOfPush, pc, stampVars, pathVars, fsVars, envVars, rdr, got>>

\* The Write in progress fails because the pipe was closed, and the
\* invocation ends.
InvWriteFails ==
    /\ inv.at = "write"
    /\ PipeDone(catPipe)
    /\ catPipe' = [catPipe EXCEPT !.data = <<>>]
    /\ inv' = [inv EXCEPT !.at = "ended", !.ret = writeCloseError(catPipe)]
    /\ UNCHANGED <<tree, restOfPush, pc, stampVars, pathVars, fsVars, envVars, rdr, got>>

\* bio.Run returns: after its last Write, or earlier once ctx is canceled.
InvReturns ==
    /\ inv.at = "run"
    /\ \/ inv.todo = <<>> /\ inv' = [inv EXCEPT !.at = "ended", !.ret = inv.err]
       \/ rdr.canceled /\ inv' = [inv EXCEPT !.at = "ended", !.ret = "context canceled"]
    /\ UNCHANGED <<tree, restOfPush, pc, stampVars, pathVars, fsVars, envVars, catPipe, rdr, got>>

\* pw.CloseWithError(err)
InvCloses ==
    /\ inv.at = "ended"
    /\ catPipe' = CloseWrite(catPipe, inv.ret)
    /\ inv' = [inv EXCEPT !.at = "closed"]
    /\ UNCHANGED <<tree, restOfPush, pc, stampVars, pathVars, fsVars, envVars, rdr, got>>

\* OpenFile from the return of its first pr.Read(buf) to its own return.
\* stderr is read without waiting for the goroutine: while Run has not
\* returned, what it holds is not determined.
OpenReads ==
    /\ rdr.at = "open"
    /\ canRead(catPipe)
    /\ LET r == pipeRead(catPipe, BufSize)
       IN /\ catPipe' = r.pipe
          /\ inv' = afterRead(r.pipe, Len(r.bytes))
          /\ IF r.err = EOF THEN rdr' = Opened("returned", "buf", r.bytes, <<>>, TRUE)
             ELSE IF Len(r.bytes) = 0
             THEN \E seen \in (IF inv.at \in {"ended", "closed"} THEN {inv.stderr}
                                ELSE {"", inv.stderr}) :
                      rdr' = Opened("returned", "err", <<>>,
                                    IF seen = "" THEN <<"open file", r.err>>
                                    ELSE <<"open file", seen>>, TRUE)
             ELSE rdr' = Opened("returned", "catStream", r.bytes, <<>>, FALSE)
    /\ UNCHANGED <<tree, restOfPush, pc, stampVars, pathVars, fsVars, envVars, got>>

\* A Read of the caller on the reader it was given, into a p of some size:
\* catStream.Read, or the Read of the reader over buf.
CallerReads ==
    /\ rdr.at = "returned"
    /\ rdr.kind \in {"buf", "catStream"}
    /\ ~got.closed
    /\ got.err = ""
    /\ \E size \in ReadSizes :
           IF Len(rdr.buf) > 0
           THEN /\ got' = [got EXCEPT !.bytes = @ \o SubSeq(rdr.buf, 1, Least(size, Len(rdr.buf)))]
                /\ rdr' = [rdr EXCEPT !.buf = Drop(@, Least(size, Len(rdr.buf)))]
                /\ UNCHANGED <<catPipe, inv>>
           ELSE IF rdr.kind = "buf"
           THEN /\ got' = [got EXCEPT !.err = EOF]
                /\ UNCHANGED <<catPipe, inv, rdr>>
           ELSE /\ canRead(catPipe)
                /\ LET r == pipeRead(catPipe, size)
                   IN /\ catPipe' = r.pipe
                      /\ inv' = afterRead(r.pipe, Len(r.bytes))
                      /\ got' = [got EXCEPT !.bytes = @ \o r.bytes, !.err = r.err]
                /\ UNCHANGED rdr
    /\ UNCHANGED <<tree, restOfPush, pc, stampVars, pathVars, fsVars, envVars>>

\* Close of the reader: catStream.Close cancels, closes pr and copies the
\* rest of pr, which is the error of the closed pipe at once; the Close of
\* the reader over buf does nothing.
CallerCloses ==
    /\ rdr.at = "returned"
    /\ rdr.kind \in {"buf", "catStream"}
    /\ ~got.closed
    /\ got' = [got EXCEPT !.closed = TRUE]
    /\ IF rdr.kind = "catStream"
       THEN /\ rdr' = [rdr EXCEPT !.canceled = TRUE]
            /\ catPipe' = CloseRead(catPipe, "")
       ELSE UNCHANGED <<rdr, catPipe>>
    /\ UNCHANGED <<tree, restOfPush, pc, stampVars, pathVars, fsVars, envVars, inv>>

CatNext ==
    \/ InvWrite
    \/ InvWriteFails
    \/ InvReturns
    \/ InvCloses
    \/ OpenReads
    \/ CallerReads
    \/ CallerCloses

CatSpec == CatInit /\ [][CatNext]_vars

(***************************************************************************)
(* Properties.  What the walk is expected to do is stated here from the    *)
(* tree, the patterns and the injected failure, not from the walk itself.  *)
(***************************************************************************)

\* bundle has returned to pushWorkDir, which still holds its results.
AfterBundle == pc \in {"wait", "remove", "unzip", "delete", "insert"}

Succeeded == AfterBundle /\ ret.err = ""

\* The walk met no enumeration error.
Enumerated == fault.what \notin {"stat", "list"}

Range(seq) == {seq[i] : i \in DOMAIN seq}

\* globalIgnore followed by the patterns of the ignore file of the tree.
PatternSequence ==
    readGlobalIgnore(globalLines)
    \o appendPatterns(<<>>, IF ignoreFile.exists THEN ignoreFile.lines ELSE <<>>)

\* The indices of the patterns of the sequence that match path.
Hits(path) ==
    LET among(patterns) ==
            {i \in DOMAIN patterns : Match(patterns[i], path, tree[path].kind = "dir")}
    IN among(PatternSequence)

\* The last pattern that matches path exists and is not negated.
ExcludedByRules(path) ==
    LET decided(patterns, hits) ==
            /\ hits # {}
            /\ \E i \in hits : (\A j \in hits : j <= i) /\ ~patterns[i].negate
    IN decided(PatternSequence, Hits(path))

\* The walk lists the directory that holds path.
RECURSIVE Reached(_)
Reached(path) ==
    /\ Exists(tree[path])
    /\ fault \notin {Fault("stat", Root), Fault("list", Root)}
    /\ Parent(path) # Root =>
         /\ Reached(Parent(path))
         /\ ~ExcludedByRules(Parent(path))
         /\ fault # Fault("list", Parent(path))

\* The walk reaches path and no rule excludes it.
Kept(path) == Reached(path) /\ ~ExcludedByRules(path)

KeptOfKind(kinds) == {p \in Paths : Kept(p) /\ tree[p].kind \in kinds}

\* The name of the archive entry of a path of the tree.
NameInArchive(path) == IF tree[path].kind = "dir" THEN path \o <<"/">> ELSE path

EntryNames == {ret.out.entries[i].name : i \in DOMAIN ret.out.entries}

\* The archive holds one entry for each path of S and nothing else.
ArchiveIsExactly(S) ==
    /\ EntryNames = {NameInArchive(p) : p \in S}
    /\ Len(ret.out.entries) = Cardinality(S)

\* C1 as stated: with an empty previous-stamp table, the archive of a
\* successful call holds an entry for exactly each directory and each regular
\* file that the ignore rules do not exclude, and toRemove is empty.
C1_AsStated ==
    (Succeeded /\ Enumerated /\ prevStamps = EmptyMap)
        => ArchiveIsExactly(KeptOfKind({"dir", "file"})) /\ ret.toRemove = <<>>

\* C1 (amended): with an empty previous-stamp table, the archive of a
\* successful call holds exactly one entry for each directory, regular file
\* and symbolic link that the walk reaches and the ignore rules do not
\* exclude, and toRemove is empty.
C1_EmptyPrevStamps ==
    (Succeeded /\ prevStamps = EmptyMap)
        => ArchiveIsExactly(KeptOfKind({"dir", "file", "symlink"})) /\ ret.toRemove = <<>>

\* A first bundle of a directory that holds a regular file, both kept.
C1_Witness ==
    /\ Succeeded /\ prevStamps = EmptyMap
    /\ Kept(PathA) /\ Kept(PathAB) /\ tree[PathAB].kind = "file"
    /\ Len(ret.out.entries) = 2

\* C2: after a successful call, each key of prevStamps that the walk did not
\* stamp (it is gone, excluded or was not reached) is in toRemove and is not
\* a key of the returned table.
C2_DeletionDetected ==
    Succeeded =>
        \A p \in DOMAIN prevStamps :
            ~Kept(p) => p \in Range(ret.toRemove) /\ p \notin DOMAIN ret.newStamps

\* A file of the previous bundle is gone from the tree and is to be removed.
C2_Witness ==
    /\ Succeeded /\ Enumerated
    /\ \E p \in DOMAIN prevStamps :
           ~Exists(tree[p]) /\ p \in Range(ret.toRemove) /\ p \notin DOMAIN ret.newStamps

\* The stamps that readStamp gives the regular files of the model.
IsFileStamp(stamp) ==
    \E t \in 1..MaxTime : stamp = marshalStamp(InfoOf(Node("file", t, <<>>)))

\* The path was a directory and is a regular file, or the reverse.
TypeChanged(path) ==
    \/ Lookup(prevStamps, path) = dirStamp /\ tree[path].kind = "file"
    \/ IsFileStamp(Lookup(prevStamps, path)) /\ tree[path].kind = "dir"

\* The archive holds the entry of the kind that path has in the tree.
HasEntryOfKind(path) ==
    \E i \in DOMAIN ret.out.entries :
        /\ ret.out.entries[i].name = NameInArchive(path)
        /\ Type(ret.out.entries[i].mode) = Type(ModeOf(tree[path].kind))

\* C3 as stated: a path that changed from directory to regular file, or the
\* reverse, is in toRemove and the archive of the call holds the entry of its
\* new kind.
C3_AsStated ==
    (Succeeded /\ Enumerated) =>
        \A p \in Paths : TypeChanged(p) => p \in Range(ret.toRemove) /\ HasEntryOfKind(p)

\* C3 (amended): after a successful call such a path is in toRemove, and the
\* archive holds the entry of its new kind when the walk reaches the path and
\* no ignore rule excludes it.
C3_TypeChange ==
    Succeeded =>
        \A p \in Paths :
            TypeChanged(p) => p \in Range(ret.toRemove) /\ (Kept(p) => HasEntryOfKind(p))

\* A directory of the previous bundle is now a regular file that is kept.
C3_Witness ==
    /\ Succeeded
    /\ \E p \in Paths :
           /\ Lookup(prevStamps, p) = dirStamp /\ tree[p].kind = "file" /\ Kept(p)
           /\ p \in Range(ret.toRemove) /\ HasEntryOfKind(p)

\* The absolute path a link of the tree points to.
AbsTarget(path) ==
    IF IsAbs(tree[path].target) THEN Clean(tree[path].target)
    ELSE Join(Dir(Join(HostRoot, path)), tree[path].target)

\* The entry is a symbolic link at path whose content, read from the
\* directory of the link, is the target of the link.
IsLinkEntry(entry, path) ==
    /\ entry.name = path
    /\ Type(entry.mode) = ModeSymlink
    /\ ~IsAbs(entry.content)
    /\ ~Contains(entry.content, "\\")
    /\ Join(Dir(Join(HostRoot, path)), entry.content) = AbsTarget(path)

\* A link that was bundled before and whose stamp differs now.
LinkChanged(path) ==
    /\ tree[path].kind = "symlink"
    /\ Lookup(prevStamps, path) # <<>>
    /\ path \in DOMAIN ret.newStamps
    /\ ret.newStamps[path] # Lookup(prevStamps, path)

\* C4: after a successful call, a symbolic link with a previous stamp and a
\* changed stamp is in toRemove and the archive holds a link entry whose
\* content is its target relative to the directory of the link.
C4_LinkReplaced ==
    Succeeded =>
        \A p \in Paths :
            LinkChanged(p) =>
                /\ p \in Range(ret.toRemove)
                /\ \E i \in DOMAIN ret.out.entries : IsLinkEntry(ret.out.entries[i], p)

\* A link that pointed elsewhere now points to /r/k and is written as ../k.
C4_Witness ==
    /\ Succeeded
    /\ LinkChanged(PathAB)
    /\ Contains(prevStamps[PathAB], "+")
    /\ \E i \in DOMAIN ret.out.entries :
           /\ IsLinkEntry(ret.out.entries[i], PathAB)
           /\ ret.out.entries[i].content = <<".", ".", "/", "k">>

\* C5: (1) the table that a run without failure leaves is the one bundle
\* returned, and a second call on the untouched tree with that table writes
\* directory entries only and removes nothing; (2) in every successful call a
\* stamped non-directory whose stamp equals its previous stamp has no entry
\* and is not in toRemove.
C5_Idempotent ==
    /\ (pc = "insert" /\ pending = {}) => localFiles = ret.newStamps
    /\ (Succeeded /\ again /\ Enumerated) =>
           /\ \A i \in DOMAIN ret.out.entries : ModeIsDir(ret.out.entries[i].mode)
           /\ ret.toRemove = <<>>
    /\ Succeeded =>
           \A p \in DOMAIN ret.newStamps :
               (tree[p].kind # "dir" /\ ret.newStamps[p] = Lookup(prevStamps, p)) =>
                   /\ p \notin Range(ret.toRemove)
                   /\ \A i \in DOMAIN ret.out.entries : ret.out.entries[i].name # p

\* The second bundle of a directory with a file: only the directory is written.
C5_Witness ==
    /\ Succeeded /\ again /\ Enumerated
    /\ tree[PathAB].kind = "file" /\ Kept(PathAB)
    /\ PathAB \in DOMAIN prevStamps
    /\ Len(ret.out.entries) = 1
    /\ ret.toRemove = <<>>

\* The relative path from linkRoot to the target of the link begins with a
\* ".." element.
Outside(path) ==
    LET leaves(rel) == ~rel.err /\ SplitSlash(rel.path)[1] = DotDot
    IN leaves(Rel(HostRoot, AbsTarget(path)))

\* The walk comes to the link and its stamp is not the previous one.
HasToEmit(path) ==
    /\ tree[path].kind = "symlink"
    /\ Kept(path)
    /\ readStamp(DirFS, path, InfoOf(tree[path])) # Lookup(prevStamps, path)

\* C6: when bundle has to emit a symbolic link whose target lies outside
\* linkRoot, it returns an error and neither a stamp table nor a removal list.
C6_LinkOutsideRoot ==
    AfterBundle =>
        \A p \in Paths :
            (HasToEmit(p) /\ Outside(p)) =>
                ret.err # "" /\ ret.nil /\ ret.newStamps = EmptyMap /\ ret.toRemove = <<>>

\* C7: when pushWorkDir returns an error the rows of the biome are those it
\* found when it was called, and bundle returns no stamp table and no
\* removal list with an error.
C7_FailureKeepsStamps ==
    /\ (pc = "returned" /\ err # "") => localFiles = before
    /\ (AfterBundle /\ ret.err # "") =>
           ret.nil /\ ret.newStamps = EmptyMap /\ ret.toRemove = <<>>

\* A run that had deleted the rows and then failed: the rows are back.
C7_Witness ==
    /\ pc = "returned" /\ err # ""
    /\ Event("delete", TRUE) \in Range(trace)
    /\ before # EmptyMap
    /\ localFiles = before

\* C8: the removal and the unzip commands start only when the transfer has
\* finished, unzip starts only after the removal command of a non-empty
\* toRemove has succeeded, and the rows are rewritten only after unzip has
\* succeeded.
C8_Order ==
    /\ pc \in {"remove", "unzip"} => writer = "done"
    /\ Event("rm", TRUE) \in Range(trace) \/ Event("rm", FALSE) \in Range(trace)
           => Event("transfer", TRUE) \in Range(trace)
    /\ (pc = "unzip" /\ ret.toRemove # <<>>) => Event("rm", TRUE) \in Range(trace)
    /\ pc \in {"delete", "insert"} => Event("unzip", TRUE) \in Range(trace)
    /\ (pc # "idle" /\ localFiles # before) => Event("unzip", TRUE) \in Range(trace)

\* A run that removed, unpacked and rewrote the rows, in this order.
C8_Witness ==
    /\ pc = "returned" /\ err = ""
    /\ localFiles # before
    /\ \E i, j, k, l \in DOMAIN trace :
           /\ i < j /\ j < k /\ k < l
           /\ trace[i] = Event("transfer", TRUE)
           /\ trace[j] = Event("rm", TRUE)
           /\ trace[k] = Event("unzip", TRUE)
           /\ trace[l] = Event("insert", TRUE)

\* C9: nothing below a directory that the rules exclude is stamped or
\* written to the archive, whatever the rules say about it.
C9_ExcludedDirPruned ==
    AfterBundle =>
        \A p \in Paths :
            (Parent(p) # Root /\ tree[Parent(p)].kind = "dir" /\ ExcludedByRules(Parent(p))) =>
                /\ p \notin DOMAIN ret.newStamps
                /\ \A i \in DOMAIN ret.out.entries :
                       ret.out.entries[i].name \notin {p, p \o <<"/">>}

\* a is excluded and a later negated pattern matches a/b, which is left out.
C9_Witness ==
    /\ Succeeded /\ Enumerated
    /\ tree[PathA].kind = "dir" /\ ExcludedByRules(PathA)
    /\ Exists(tree[PathAB])
    /\ Hits(PathAB) # {} /\ ~ExcludedByRules(PathAB)
    /\ PathAB \notin DOMAIN ret.newStamps

\* C10: after a successful call a path that the walk reaches is stamped
\* exactly when no pattern of globalIgnore followed by the patterns of the
\* ignore file matches it or the last one that matches it is negated.
C10_LastMatchDecides ==
    Succeeded =>
        \A p \in Paths : Reached(p) => (p \in DOMAIN ret.newStamps <=> ~ExcludedByRules(p))

\* A global rule excludes a/b and a negated rule of the ignore file, later in
\* the sequence, includes it again.
C10_Witness ==
    /\ Succeeded /\ Reached(PathAB)
    /\ \E i \in 1..Len(readGlobalIgnore(globalLines)) :
           i \in Hits(PathAB) /\ ~PatternSequence[i].negate
    /\ \E j \in Hits(PathAB) :
           j > Len(readGlobalIgnore(globalLines)) /\ PatternSequence[j].negate
    /\ PathAB \in DOMAIN ret.newStamps

\* bundle has returned to a caller that called it on its own.
Called == pc = "called"

\* C11 as stated: when the walk comes to a symbolic link that the rules do
\* not exclude while linkRoot is empty, bundle returns an error and no stamp
\* table.
C11_AsStated ==
    (Called /\ linkRoot = <<>> /\ \E p \in Paths : Kept(p) /\ tree[p].kind = "symlink") =>
        ret.err # "" /\ ret.nil /\ ret.newStamps = EmptyMap

\* C11: when bundle has to emit a symbolic link (the walk comes to it, the
\* rules do not exclude it and its stamp is not the previous one) while
\* linkRoot is empty, bundle returns an error, no stamp table and no removal
\* list.
C11_NoLinkRoot ==
    (Called /\ linkRoot = <<>> /\ \E p \in Paths : HasToEmit(p)) =>
        ret.err # "" /\ ret.nil /\ ret.newStamps = EmptyMap /\ ret.toRemove = <<>>

\* A call without linkRoot that meets nothing but the link fails on it.
C11_Witness ==
    /\ Called /\ linkRoot = <<>> /\ fault = NoFault
    /\ HasToEmit(PathAB)
    /\ ret.err = "found symlink on unsupported file system"

\* C12: a Write of bundle that waits on the pipe returns, the reading of
\* biome.WriteFile ends once bundle has returned, and pushWorkDir receives
\* the result of biome.WriteFile: both goroutines come to their end.
C12_NeverHangs ==
    /\ (pc = "writing") ~> (pc # "writing")
    /\ (pc = "wait") ~> (writer # "running")
    /\ <>(pc = "joined" /\ writer = "none")
    /\ [](pc = "joined" => writeErr = result)

\* biome.WriteFile stopped without an error while bundle still had to write:
\* the Write of bundle failed and pushWorkDir came to its end.
C12_Witness ==
    /\ pc = "joined" /\ writer = "none"
    /\ result = "" /\ left > 0
    /\ bundleErr = ErrClosedPipe

\* C13: when bundle fails, the Read of biome.WriteFile that the closing of
\* the pipe ends returns the error of bundle, not the end of the stream.
C13_ReaderSeesError ==
    (bundleErr # "" /\ readErr # "") => readErr = bundleErr

\* The path of the tree that an archive entry was written for.
PathOfEntry(name) == IF name[Len(name)] = "/" THEN Slice(name, 0, Len(name) - 1) ELSE name

\* C14: in what bundle has written, an entry whose path lies in a directory
\* other than the root comes after the entry of that directory, named with a
\* trailing "/".
C14_ParentFirst ==
    \A i \in DOMAIN ret.out.entries :
        Parent(PathOfEntry(ret.out.entries[i].name)) # Root =>
            \E j \in 1..(i - 1) :
                ret.out.entries[j].name = Parent(PathOfEntry(ret.out.entries[i].name)) \o <<"/">>

\* The directory a was bundled before and its stamp is the same, a/b is
\* written again: the archive holds a/ and then a/b.
C14_Witness ==
    /\ AfterBundle
    /\ Lookup(prevStamps, PathA) = dirStamp
    /\ tree[PathA].kind = "dir"
    /\ Len(ret.out.entries) = 2
    /\ ret.out.entries[1].name = PathA \o <<"/">>
    /\ ret.out.entries[2].name = PathAB

\* The failures to stat or to list an entry during the walk.
EnumerationFaults == {"stat", "list", "info"}

\* C15: a call of bundle that meets nothing but a failure to stat or to list
\* an entry, on a tree of directories and regular files, returns no error.
C15_EnumerationSkipped ==
    (/\ AfterBundle
     /\ fault.what \in EnumerationFaults
     /\ \A p \in Paths : tree[p].kind \in {"none", "dir", "file"}) =>
        ret.err = "" /\ ~ret.nil

\* ParseLine has been applied to globLine.
Parsed == pc \in {"parsed", "matched"}

\* C16: ParseLine returns a Pattern for every line, and for a line with a
\* syntax error the Pattern is the zero Pattern, which is not valid and
\* matches no path.
C16_AlwaysReturns ==
    Parsed =>
        /\ globPat.re.kind # "panic"
        /\ globLine \in BadLines => globPat = ZeroPattern /\ ~IsValid(globPat)
        /\ (globLine \in BadLines /\ pc = "matched") => ~globMatch

\* A member of the class lists the rune c, on its own or inside its range.
Listed(cs, c) ==
    \E i \in DOMAIN cs.items : Ord(cs.items[i].lo) <= Ord(c) /\ Ord(c) <= Ord(cs.items[i].hi)

\* C17: the pattern f[...] of a character class is compiled and matches the
\* path fc exactly when c is not "/" and c is listed by a class that is not
\* negated, or not listed by a negated one.
C17_ClassMatches ==
    \A cs \in ClassSpecs :
        (Parsed /\ globLine = ClassText(cs)) =>
            /\ globPat.re.kind = "re"
            /\ (pc = "matched" /\ Len(globPath) = 2 /\ globPath[1] = "f") =>
                   (globMatch <=> (globPath[2] # "/" /\ (Listed(cs, globPath[2]) # cs.neg)))

\* The lines of LineSet that are neither negated nor for directories only
\* and hold no character class.
AnchorLines ==
    { <<"a">>,
      <<"/", "a">>,
      <<"a", "/", "b">>,
      <<"/", "a", "/", "b">>,
      <<"*">>,
      <<"/", "*">>,
      <<"*", "/", "b">>,
      <<"a", "/", "*">>,
      <<"a", "/", "*", "*", "/", "b">>,
      <<"*", "*", "/", "a">>,
      <<"/", "*", "*", "/", "a">>,
      <<"*", "*", "/", "a", "/", "b">>,
      <<"a", "/", "*", "*">>,
      <<"/", "a", "/", "*", "*">>,
      <<"a", "/", "b", "/", "*", "*">>,
      <<"*", "*", "/", "a", "/", "*", "*">> }

Unslashed(line0) == IF HasPrefix(line0, <<"/">>) THEN Tail(line0) ELSE line0

\* The line begins with **/, also after a leading "/".
StartsDeep(line0) == HasPrefix(Unslashed(line0), <<"*", "*", "/">>)

\* The line without its leading "/" and its leading **/.
Body(line0) == IF StartsDeep(line0) THEN Drop(Unslashed(line0), 3) ELSE Unslashed(line0)

\* A literal token of the body holds a "/".
SlashLiteral(line0) ==
    LET among(tokens) ==
            \E i \in DOMAIN tokens : tokens[i].typ = literal /\ Contains(tokens[i].s, "/")
    IN among(lexPattern(Body(line0)))

\* The tails of a path that start at its start or right after a "/".
Tails(path) == {path} \cup {Drop(path, i) : i \in {k \in DOMAIN path : path[k] = "/"}}

\* The body of the line matches path from its start.
FromStart(line0, path, isDir) == Match(ParseLine(<<"/">> \o Body(line0)), path, isDir)

\* Match agrees with the body of the line matching from the start of the
\* path (rooted) or from the start of one of its tails (not rooted); a
\* rooted body that starts with a letter matches only paths that start with it.
Anchored(rooted) ==
    /\ globMatch <=> IF rooted THEN FromStart(globLine, globPath, globDir)
                     ELSE \E t \in Tails(globPath) : FromStart(globLine, t, globDir)
    /\ (rooted /\ globMatch /\ Body(globLine)[1] \in {"a", "b", "c"}) =>
           globPath[1] = Body(globLine)[1]

\* C18 as stated: a pattern is rooted if its line begins with "/" or if a
\* literal token, after a leading **/ is removed, holds a "/"; any other
\* pattern matches from the start of the path or right after any "/".
C18_AsStated ==
    (pc = "matched" /\ globLine \in AnchorLines /\ ValidPath(globPath)) =>
        Anchored(HasPrefix(globLine, <<"/">>) \/ SlashLiteral(globLine))

\* C18: a pattern is rooted if its line does not begin with **/, also after
\* a leading "/", and begins with "/" or has a literal token that holds a
\* "/"; any other pattern matches from the start of the path or right after
\* any "/".
C18_Rooted ==
    (pc = "matched" /\ globLine \in AnchorLines /\ ValidPath(globPath)) =>
        Anchored(~StartsDeep(globLine)
                 /\ (HasPrefix(globLine, <<"/">>) \/ SlashLiteral(globLine)))

\* a/b is rooted by its "/": it is tried on c/a/b and does not match.
C18_Witness ==
    /\ pc = "matched"
    /\ globLine = <<"a", "/", "b">>
    /\ globPath = <<"c", "/", "a", "/", "b">>
    /\ ~globMatch

\* The lines that begin with **/, also after a leading "/", followed by
\* names only.
DeepLines ==
    { <<"*", "*", "/", "a">>, <<"/", "*", "*", "/", "a">>,
      <<"*", "*", "/", "a", "/", "b">> }

\* C19: a line **/x or /**/x, x made of names, matches exactly the paths
\* that are x or end with /x, at any depth.
C19_AnyDepth ==
    (pc = "matched" /\ globLine \in DeepLines /\ ValidPath(globPath)) =>
        (globMatch <=> \/ globPath = Body(globLine)
                       \/ HasSuffix(globPath, <<"/">> \o Body(globLine)))

\* /**/a matches a two directories down.
C19_Witness ==
    /\ pc = "matched"
    /\ globLine = <<"/", "*", "*", "/", "a">>
    /\ globPath = <<"c", "/", "b", "/", "a">>
    /\ globMatch

\* The lines whose tokens end with a trailing **.
OpenLines ==
    { <<"a", "/", "*", "*">>, <<"/", "a", "/", "*", "*">>,
      <<"a", "/", "b", "/", "*", "*">>, <<"*", "*", "/", "a", "/", "*", "*">>,
      <<"*", "*">>, <<"/", "*", "*">> }

\* The part of the line before its trailing **.
Before(line0) == SubSeq(Body(line0), 1, Len(Body(line0)) - 2)

\* C20: a line that ends with a trailing ** matches every path that extends
\* the part before the **, from the start of the path or, after a leading
\* **/, from the start of one of its tails, and no other path.
C20_OpenPrefix ==
    (pc = "matched" /\ globLine \in OpenLines /\ ValidPath(globPath)) =>
        (globMatch <=> IF StartsDeep(globLine)
                       THEN \E t \in Tails(globPath) : HasPrefix(t, Before(globLine))
                       ELSE HasPrefix(globPath, Before(globLine)))

\* The elements of the path, split at "/", hold no element among bad.
NoElement(path, bad) ==
    LET none(elems) == \A i \in DOMAIN elems : elems[i] \notin bad
    IN none(SplitSlash(path))

\* Match is false for an inert pattern and for a pattern for directories
\* only on an entry that is not a directory; else it is false on a path
\* that is not valid and the result of the expression on a valid one.
MatchIs(valid) ==
    (pc = "matched") =>
        (globMatch <=> /\ globPat.re.kind = "re"
                       /\ (globDir \/ ~globPat.directoryOnly)
                       /\ valid
                       /\ MatchString(globPat.re, globPath))

\* C21 as stated: the paths that are not valid are the empty path, the
\* paths with a leading or trailing separator and the paths with a "." or
\* ".." element.
C21_AsStated ==
    MatchIs(/\ globPath # <<>>
            /\ globPath[1] # "/"
            /\ globPath[Len(globPath)] # "/"
            /\ NoElement(globPath, {<<".">>, <<".", ".">>}))

\* C21: Match is false if the pattern is inert, if it is for directories
\* only and the entry is not a directory, or if the path is not "." and is
\* empty or has an empty, "." or ".." element (a leading, trailing or
\* doubled separator makes an empty element); in every other case, the path
\* "." among them, it is the result of the expression on the path.
C21_Match ==
    MatchIs(\/ globPath = <<".">>
            \/ NoElement(globPath, {<<>>, <<".">>, <<".", ".">>}))

\* **/a is tried on /a: the expression matches, Match returns false.
C21_Witness ==
    /\ pc = "matched"
    /\ globLine = <<"*", "*", "/", "a">>
    /\ globPath = <<"/", "a">>
    /\ MatchString(globPat.re, globPath)
    /\ ~globMatch

\* The character at offset i of s is escaped: an odd number of backslashes
\* stands right before it.
RECURSIVE Escaped(_, _)
Escaped(s, i) == i > 1 /\ s[i - 1] = "\\" /\ ~Escaped(s, i - 1)

\* The line without its trailing whitespace that is not escaped.
RECURSIVE Untrailed(_)
Untrailed(s) ==
    IF s # <<>> /\ IsSpace(s[Len(s)]) /\ ~Escaped(s, Len(s))
    THEN Untrailed(SubSeq(s, 1, Len(s) - 1))
    ELSE s

\* The name a line of SpaceLines stands for: its escaping backslashes
\* removed, a last backslash that escapes nothing kept.
RECURSIVE Unescaped(_)
Unescaped(s) ==
    IF s = <<>> THEN <<>>
    ELSE IF s[1] = "\\" /\ Len(s) > 1 THEN <<s[2]>> \o Unescaped(Drop(s, 2))
    ELSE <<s[1]>> \o Unescaped(Drop(s, 1))

\* C22: ParseLine drops the trailing whitespace that is not escaped and
\* keeps an escaped trailing space as a character of the name: the pattern
\* of a line of SpaceLines matches exactly the entries with the name that
\* is left, and it is the zero Pattern when nothing is left.
C22_TrailingSpace ==
    (Parsed /\ globLine \in SpaceLines) =>
        /\ (Untrailed(globLine) = <<>>) => globPat = ZeroPattern
        /\ (Untrailed(globLine) # <<>>) => globPat.line = Untrailed(globLine)
        /\ (pc = "matched" /\ ValidPath(globPath)) =>
               (globMatch <=> /\ Untrailed(globLine) # <<>>
                              /\ \/ globPath = Unescaped(Untrailed(globLine))
                                 \/ HasSuffix(globPath,
                                        <<"/">> \o Unescaped(Untrailed(globLine))))

AllDigits(s) == s # <<>> /\ \A i \in DOMAIN s : IsDigit(s[i])

\* s is the decimal text of n.
Decimal(s, n) == AllDigits(s) /\ NatOf(s, 0) = n

\* s is <sec>.<micros> with six digits of microseconds, for the time t.
TimeText(s, t) ==
    /\ Len(s) >= 8
    /\ s[Len(s) - 6] = "."
    /\ AllDigits(SubSeq(s, 1, Len(s) - 7))
    /\ AllDigits(SubSeq(s, Len(s) - 5, Len(s)))
    /\ NatOf(SubSeq(s, 1, Len(s) - 7), 0) * MicrosPerSecond
           + NatOf(SubSeq(s, Len(s) - 5, Len(s)), 0) = t

\* The stamp has the six fields of info, inode and owner 0 without Sys().
StampOf(s, info) ==
    LET fields(parts) ==
            /\ Len(parts) = 6
            /\ TimeText(parts[1], info.modTime)
            /\ Decimal(parts[2], info.size)
            /\ Decimal(parts[3], IF info.sys.ok THEN info.sys.Ino ELSE 0)
            /\ Decimal(parts[4], info.mode.low)
            /\ Decimal(parts[5], IF info.sys.ok THEN info.sys.Uid ELSE 0)
            /\ Decimal(parts[6], IF info.sys.ok THEN info.sys.Gid ELSE 0)
    IN fields(SplitDash(s))

\* C23: marshalStamp returns "dir" for a directory and, for any other
\* entry, a stamp that is not "dir" and reads
\* <sec>.<6-digit-micros>-<size>-<ino>-<mode>-<uid>-<gid>, with inode, uid
\* and gid 0 when Sys() is not a *syscall.Stat_t.
C23_StampFormat ==
    (pc = "marshalled") =>
        IF ModeIsDir(stampInfo.mode) THEN stampText = dirStamp
        ELSE stampText # dirStamp /\ StampOf(stampText, stampInfo)

\* C28: stampMode of the stamp that readStamp computed for a directory, a
\* symbolic link or a regular file has the type bits of the mode of the entry.
C28_KindRecovered ==
    (pc = "moded" /\ Type(stampInfo.mode) \in {ModeDir, ModeSymlink, ModeRegular}) =>
        Type(stampedMode) = Type(stampInfo.mode)

\* The elements that are not empty, in order.
NonEmpty(elem) == SelectSeq(elem, LAMBDA e : e # <<>>)

\* The cleaned form of the elements joined with the separator of the dialect.
CleanJoined(os, elem) ==
    IF os = Windows THEN windowsClean(JoinWith(elem, Separator))
    ELSE Clean(JoinWith(elem, "/"))

\* CleanPath("") is ".".
CleanEmpty == (pc = "cleaned" /\ pathElem = << <<>> >>) => pathOut = <<".">>

\* C24 as stated: JoinPath returns "" when no element is left after the
\* empty ones are dropped, else the cleaned form of the elements that are
\* left joined with the separator of the dialect; CleanPath("") is ".".
C24_AsStated ==
    /\ (pc = "joined") =>
           pathOut = IF NonEmpty(pathElem) = <<>> THEN <<>>
                     ELSE CleanJoined(pathOS, NonEmpty(pathElem))
    /\ CleanEmpty

\* What the Windows dialect returns for elements ne that are not empty: a
\* first element that is a bare drive is followed by the rest with no
\* separator; else the cleaned join, unless that is a UNC path and the
\* first element is not one: then the result starts with one separator
\* and is not a UNC path.
WindowsJoined(out, ne) ==
    IF Len(ne[1]) = 2 /\ ne[1][2] = ":"
    THEN out = windowsClean(ne[1] \o JoinWith(Tail(ne), Separator))
    ELSE IF isUNC(CleanJoined(Windows, ne)) /\ ~isUNC(windowsClean(ne[1]))
    THEN /\ ~isUNC(out)
         /\ out[1] = Separator
         /\ Len(out) > 1 /\ out[2] # Separator
    ELSE out = CleanJoined(Windows, ne)

\* C24: JoinPath returns "" when every element is empty; else, in the
\* POSIX dialect, the cleaned form of the elements that are not empty
\* joined with "/", and in the Windows dialect the same with "\" except
\* after a bare drive and where a UNC path would appear; CleanPath("") is ".".
C24_Join ==
    /\ (pc = "joined") =>
           IF NonEmpty(pathElem) = <<>> THEN pathOut = <<>>
           ELSE IF pathOS = Windows THEN WindowsJoined(pathOut, NonEmpty(pathElem))
           ELSE pathOut = CleanJoined(Linux, NonEmpty(pathElem))
    /\ CleanEmpty

\* In the Windows dialect C: and a are joined to C:a.
C24_Witness ==
    /\ pc = "joined"
    /\ pathOS = Windows
    /\ pathElem = << <<"C", ":">>, <<>>, <<"a">> >>
    /\ pathOut = <<"C", ":", "a">>

\* The optional method of the biome for the function that was called.
MethodCalled == bio[fsOp]

\* The biome has no method for the function, or the method returned
\* ErrUnsupported, bare or wrapped.
Unsupported ==
    \/ ~MethodCalled.has
    \/ MethodCalled.ret.err \in {ErrUnsupported, Wrap("not here", ErrUnsupported)}

\* The fallback command of the function.
FallbackOf(op) ==
    CASE op = "OpenFile" -> {"cat"}
      [] op = "WriteFile" -> {"tee"}
      [] op = "MkdirAll" -> {"mkdir"}
      [] op = "EvalSymlinks" -> {"readlink", "python"}

HasEntry(path) == EntryNames \cap {path, path \o <<"/">>} # {}

\* C26: after a successful call of bundle every element of toRemove is a key
\* of prevStamps, no path is twice in toRemove, and each element is either
\* not a key of the returned stamps or has an entry in the archive of the
\* same call.
C26_RemovalsSafe ==
    Succeeded =>
        /\ \A i \in DOMAIN ret.toRemove :
               /\ ret.toRemove[i] \in DOMAIN prevStamps
               /\ \/ ret.toRemove[i] \notin DOMAIN ret.newStamps
                  \/ HasEntry(ret.toRemove[i])
        /\ \A i, j \in DOMAIN ret.toRemove :
               ret.toRemove[i] = ret.toRemove[j] => i = j

\* One call removes a path that is gone and one that it writes again: a was
\* a file and is now a directory.
C26_Witness ==
    /\ Succeeded
    /\ \E i, j \in DOMAIN ret.toRemove :
           /\ ret.toRemove[i] \notin DOMAIN ret.newStamps
           /\ ret.toRemove[j] \in DOMAIN ret.newStamps
           /\ tree[ret.toRemove[j]].kind = "file"
           /\ HasEntry(ret.toRemove[j])

\* path is in the tree with the stamp that prevStamps holds for it.
StillAsStamped(path) ==
    /\ path \in DOMAIN prevStamps
    /\ Exists(tree[path])
    /\ prevStamps[path] = readStamp(DirFS, path, InfoOf(tree[path]))

\* A rule excludes path, or it lies below a directory that a rule excludes.
NowExcluded(path) ==
    \/ ExcludedByRules(path)
    \/ Parent(path) # Root /\ tree[Parent(path)].kind = "dir" /\ ExcludedByRules(Parent(path))

\* C27: after a successful call, a key of prevStamps that is still in the
\* tree with the same stamp but that a rule now excludes, itself or the
\* directory that holds it, is not a key of the returned stamps and is in
\* toRemove.
C27_ExcludedIsRemoved ==
    Succeeded =>
        \A p \in Paths :
            (StillAsStamped(p) /\ NowExcluded(p)) =>
                p \notin DOMAIN ret.newStamps /\ p \in Range(ret.toRemove)

\* The file a/b was pushed and has not changed; a rule now excludes the
\* directory a and none excludes a/b: both are removed.
C27_Witness ==
    /\ Succeeded /\ Enumerated
    /\ StillAsStamped(PathA) /\ ExcludedByRules(PathA)
    /\ StillAsStamped(PathAB) /\ ~ExcludedByRules(PathAB)
    /\ tree[PathAB].kind = "file"
    /\ ret.newStamps = EmptyMap
    /\ Range(ret.toRemove) = {PathA, PathAB}

\* The schema accepts every name and every directory of the environment.
Accepted(e) ==
    /\ \A k \in DOMAIN e.Vars : nameCheck(k)
    /\ \A i \in DOMAIN e.PrependPath : directoryCheck(e.PrependPath[i])
    /\ \A i \in DOMAIN e.AppendPath : directoryCheck(e.AppendPath[i])

\* C29: writeBiomeEnvironment succeeds and the readBiomeEnvironment that
\* follows returns the Vars, the PrependPath and the AppendPath that were
\* written, each list in its order; stated here for the environments whose
\* names and directories the schema accepts.
C29_RoundTrip ==
    (pc = "read" /\ Accepted(envIn)) =>
        /\ wrote = ""
        /\ readBack.Vars = envIn.Vars
        /\ readBack.PrependPath = envIn.PrependPath
        /\ readBack.AppendPath = envIn.AppendPath

\* OpenFile returned an error only if Run has returned an error and no Read
\* took a byte of its output.
ErrorOnlyWithoutOutput ==
    (rdr.at = "returned" /\ rdr.kind = "err") =>
        inv.at \in {"ended", "closed"} /\ inv.ret # "" /\ inv.sent = 0

\* What the caller has read and what the reader still holds are the bytes
\* taken from the invocation, in their order, and a caller that has read to
\* EOF has read every byte the invocation wrote.
ExactBytes ==
    (rdr.at = "returned" /\ rdr.kind \in {"buf", "catStream"}) =>
        /\ got.bytes \o rdr.buf = Bytes(1, inv.sent)
        /\ got.err = EOF => got.bytes = Bytes(1, inv.next - 1) /\ inv.todo = <<>>

\* After Close no Write of the invocation waits on an open pipe.
NotBlockedAfterClose ==
    got.closed => (inv.at = "write" => PipeDone(catPipe))

\* C30: through cat, OpenFile returns an error only when the invocation
\* ended with an error and without output; else the reader yields exactly
\* the bytes the invocation wrote, in order, and after Close the invocation
\* is not left blocked in a Write to the pipe.
C30_CatFallback ==
    (pc = "cat") => ErrorOnlyWithoutOutput /\ ExactBytes /\ NotBlockedAfterClose

====
